---- MODULE Spec2Model ----
(***************************************************************************)
(* Model of the framework-independent core: TodoUseCases over the          *)
(* in-memory todo repository, AuthUseCases over the in-memory user         *)
(* repository.  Every use-case method is an async function: it runs        *)
(* synchronously up to its first await, and each continuation after an     *)
(* await is a separate step that other calls may interleave with.          *)
(* Strings that the code inspects (trim, includes, toLowerCase, length)    *)
(* are sequences of one-character strings.                                 *)
(***************************************************************************)
EXTENDS Integers, Sequences, FiniteSets, TLC

VARIABLES todos, nextTodoId, users, nextUserId, sessions, nextToken, now, calls,
          heap, memTodos, held,
          storage, lsNextId,
          observers, handles, received,
          ucTodos, mapTodos, mapNextId, microtasks,
          currentUser, currentSession,
          storeState, listeners, heard,
          authToken, ctxUser, ctxToken, isLoading, effect, loadedBy,
          lists, todosRef, deliveredRefs, lastRef

todoVars == <<todos, nextTodoId>>

authVars == <<users, nextUserId, sessions, nextToken, now>>

\* the objects of the heap, the array of an InMemoryTodoRepository that refers
\* to them, and the value a caller holds
aliasVars == <<heap, memTodos, held>>

\* the localStorage item "todos" and the nextId field of each
\* LocalStorageTodoRepository instance
storageVars == <<storage, lsNextId>>

\* the observers of a SimpleObservable, the observers whose unsubscribe handle a
\* caller holds, and for each observer how many times it has been called and
\* the data of the last call
obsVars == <<observers, handles, received>>

\* the local list of the observable TodoUseCase, the Map and nextId of the
\* InMemoryTodoRepository behind it, and the calls of the use case whose
\* continuation is queued as a microtask, oldest first
todoUcVars == <<ucTodos, mapTodos, mapNextId, microtasks>>

\* the currentUser of the observable AuthUseCase and the currentSession of the
\* InMemoryAuthRepository behind it
authUcVars == <<currentUser, currentSession>>

\* the state and the listeners of a Store, and for each listener how many
\* times it has been called and the state of the last call
storeVars == <<storeState, listeners, heard>>

adapterVars == <<aliasVars, storageVars, obsVars, todoUcVars, authUcVars>>

\* the localStorage item "authToken", the user, token and isLoading state of the
\* AuthProvider, the position of its mount effect, and what loaded the page
pageVars == <<authToken, ctxUser, ctxToken, isLoading, effect, loadedBy>>

\* the array objects a TodoUseCase has had as this.todos (an array is known
\* by its position here), the one this.todos refers to, the arrays that were
\* handed to a subscriber, and the one handed over last (0 before the first)
snapVars == <<lists, todosRef, deliveredRefs, lastRef>>

viewVars == <<storeVars, pageVars, snapVars>>

extVars == <<adapterVars, viewVars>>

coreVars == <<todoVars, authVars, calls>>

vars == <<todoVars, authVars, calls, extVars>>

(* ------------------------------ bounds -------------------------------- *)

MaxTodos == 2

MaxUsers == 2

MaxTokens == 2

MaxTime == 48

TickHours == 24

\* objects allocated on the heap
MaxObjects == 3

\* largest nextId at which a LocalStorageTodoRepository still creates
MaxNextId == 3

\* array objects a TodoUseCase allocates for this.todos
MaxLists == 3

\* todos in localStorage
MaxStored == 2

\* notifications one observer is followed through
MaxNotifications == 2

\* call slots: a slot holds one call of a use-case method, from its invocation
\* until its caller has its result.  Slot "c1" alone gives sequential use (each
\* call awaited before the next); "c1" and "c2" give two overlapping calls.
Slots == {"c1", "c2"}

SeqSlots == {"c1"}

(* ---------------------------- input sets ------------------------------ *)

\* owner ids handed to TodoUseCases; "" stands for an absent/empty userId
UserIdInputs == {"", "u1", "u2"}

TitleInputs == {<<"a">>, <<" ", "b">>, <<" ">>, <<>>}

\* ids a caller can name: ids of todos created so far, and 0, an id that
\* was never issued (crypto.randomUUID values cannot be guessed in advance)
TodoIdInputs == 0..(nextTodoId - 1)

(* --------------------------- shared helpers --------------------------- *)

Null == [null |-> TRUE]

Idle == [pc |-> "idle"]

Ok(v) == [ok |-> TRUE, value |-> v]

Err(m) == [ok |-> FALSE, err |-> m]

\* JS object spread {...a, ...b}
Spread(a, b) == [k \in (DOMAIN a) \cup (DOMAIN b) |-> IF k \in DOMAIN b THEN b[k] ELSE a[k]]

\* Array.prototype.findIndex / find over the matching positions S of an array:
\* the first one, 1-based; 0 stands for -1 (no match)
FindIndex(S) == IF S = {} THEN 0 ELSE CHOOSE i \in S : \A j \in S : i <= j

\* Array.prototype.splice(index, 1)
RemoveAt(s, i) == [j \in 1..(Len(s) - 1) |-> IF j < i THEN s[j] ELSE s[j + 1]]

IsWhitespace(ch) == ch = " "

RECURSIVE TrimStart(_)
TrimStart(s) == IF s # <<>> /\ IsWhitespace(Head(s)) THEN TrimStart(Tail(s)) ELSE s

RECURSIVE TrimEnd(_)
TrimEnd(s) ==
    IF s # <<>> /\ IsWhitespace(s[Len(s)]) THEN TrimEnd(SubSeq(s, 1, Len(s) - 1)) ELSE s

\* mutant: nothing is trimmed
TrimNothing(s) == s

\* String.prototype.trim
Trim(s) == TrimEnd(TrimStart(s))

(* ------------------------- error messages ----------------------------- *)

ErrTodoAuthRequired == "Authentication required to create todos"

ErrTitleEmpty == "Todo title cannot be empty"

ErrUnauthorizedAccess == "Unauthorized: You do not have access to this todo"

ErrUnauthorizedUpdate == "Unauthorized: You can only update your own todos"

ErrUnauthorizedToggle == "Unauthorized: You can only toggle your own todos"

ErrUnauthorizedDelete == "Unauthorized: You can only delete your own todos"

ErrTodoNotFound == "Todo with id not found"

(* ---------------------- InMemoryTodoRepository ------------------------ *)

TodoRepoGetAll == todos

\* mutant: the owner filter is dropped
TodoRepoGetAllByUserIdNoFilter(userId) == todos

TodoRepoGetAllByUserId(userId) == LET Own(t) == t.userId = userId IN SelectSeq(todos, Own)

TodoRepoGetById(id) ==
    LET i == FindIndex({k \in 1..Len(todos) : todos[k].id = id})
    IN  IF i = 0 THEN Null ELSE todos[i]

\* mutant: every new todo gets the same id
NewTodoFixedId(data, userId) ==
    [id |-> 1, title |-> data.title, completed |-> FALSE, userId |-> userId, createdAt |-> now]

NewTodo(data, userId) ==
    [id |-> nextTodoId, title |-> data.title, completed |-> FALSE,
     userId |-> userId, createdAt |-> now]

\* create: the new list and id counter (the returned todo is NewTodo)
TodoRepoCreate(data, userId) ==
    /\ todos' = Append(todos, NewTodo(data, userId))
    /\ nextTodoId' = nextTodoId + 1

TodoRepoUpdateIndex(data) == FindIndex({k \in 1..Len(todos) : todos[k].id = data.id})

\* mutant: a title that is not supplied is cleared
TodoRepoUpdatedFromData(data) ==
    LET old == todos[TodoRepoUpdateIndex(data)]
        t   == Spread(old, [title |-> IF "title" \in DOMAIN data THEN data.title ELSE <<>>])
    IN  IF "completed" \in DOMAIN data THEN Spread(t, [completed |-> data.completed]) ELSE t

\* the record written by update: the stored todo overlaid with the title and
\* completed fields that are present in data
TodoRepoUpdated(data) ==
    LET old == todos[TodoRepoUpdateIndex(data)]
        t   == IF "title" \in DOMAIN data THEN Spread(old, [title |-> data.title]) ELSE old
    IN  IF "completed" \in DOMAIN data THEN Spread(t, [completed |-> data.completed]) ELSE t

\* update: result of the call; the store changes only when the id is found
TodoRepoUpdateResult(data) ==
    IF TodoRepoUpdateIndex(data) = 0 THEN Err(ErrTodoNotFound) ELSE Ok(TodoRepoUpdated(data))

TodoRepoUpdate(data) ==
    /\ todos' = IF TodoRepoUpdateIndex(data) = 0 THEN todos
                ELSE [todos EXCEPT ![TodoRepoUpdateIndex(data)] = TodoRepoUpdated(data)]
    /\ UNCHANGED nextTodoId

TodoRepoDeleteIndex(id) == FindIndex({k \in 1..Len(todos) : todos[k].id = id})

TodoRepoDeleteResult(id) ==
    IF TodoRepoDeleteIndex(id) = 0 THEN Err(ErrTodoNotFound) ELSE Ok(Null)

TodoRepoDelete(id) ==
    /\ todos' = IF TodoRepoDeleteIndex(id) = 0 THEN todos
                ELSE RemoveAt(todos, TodoRepoDeleteIndex(id))
    /\ UNCHANGED nextTodoId

(* --------------------------- call plumbing ---------------------------- *)

\* a new call can be made in slot c: nothing is in flight there
Free(c) == calls[c].pc \in {"idle", "done"}

\* the call in slot c completes with result r (resolved value or thrown error)
Return(c, op, arg, r) ==
    calls' = [calls EXCEPT ![c] = [pc |-> "done", op |-> op, arg |-> arg, res |-> r]]

\* the call in slot c suspends at an await, keeping its locals
Await(c, pc, op, arg, loc) ==
    calls' = [calls EXCEPT ![c] = [pc |-> pc, op |-> op, arg |-> arg, loc |-> loc]]

(* ----------------------------- TodoUseCases --------------------------- *)

getAllTodosValue(userId) ==
    IF userId # "" THEN TodoRepoGetAllByUserId(userId) ELSE TodoRepoGetAll

getAllTodos(c, userId) ==
    /\ Free(c)
    /\ Return(c, "getAllTodos", [userId |-> userId], Ok(getAllTodosValue(userId)))
    /\ UNCHANGED <<extVars, todoVars, authVars>>

getTodoByIdResult(id, userId) ==
    LET todo == TodoRepoGetById(id)
    IN  IF todo # Null /\ userId # "" /\ todo.userId # userId
        THEN Err(ErrUnauthorizedAccess)
        ELSE Ok(todo)

\* the continuation after the await reads only the todo fetched at the call
getTodoById(c, id, userId) ==
    /\ Free(c)
    /\ Return(c, "getTodoById", [id |-> id, userId |-> userId], getTodoByIdResult(id, userId))
    /\ UNCHANGED <<extVars, todoVars, authVars>>

createTodo(c, data, userId) ==
    /\ Free(c)
    /\ LET arg == [data |-> data, userId |-> userId] IN
       IF userId = ""
       THEN Return(c, "createTodo", arg, Err(ErrTodoAuthRequired)) /\ UNCHANGED todoVars
       ELSE IF Trim(data.title) = <<>>
       THEN Return(c, "createTodo", arg, Err(ErrTitleEmpty)) /\ UNCHANGED todoVars
       ELSE /\ nextTodoId <= MaxTodos
            /\ TodoRepoCreate(data, userId)
            /\ Return(c, "createTodo", arg, Ok(NewTodo(data, userId)))
    /\ UNCHANGED <<extVars, authVars>>

updateTodo(c, data, userId) ==
    /\ Free(c)
    /\ LET arg == [data |-> data, userId |-> userId] IN
       IF "title" \in DOMAIN data /\ Trim(data.title) = <<>>
       THEN Return(c, "updateTodo", arg, Err(ErrTitleEmpty)) /\ UNCHANGED todoVars
       ELSE IF userId # ""
       THEN /\ Await(c, "updateTodo_1", "updateTodo", arg,
                     [existingTodo |-> TodoRepoGetById(data.id)])
            /\ UNCHANGED todoVars
       ELSE /\ TodoRepoUpdate(data)
            /\ Return(c, "updateTodo", arg, TodoRepoUpdateResult(data))
    /\ UNCHANGED <<extVars, authVars>>

updateTodo_1(c) ==
    /\ calls[c].pc = "updateTodo_1"
    /\ LET arg == calls[c].arg
           existingTodo == calls[c].loc.existingTodo
       IN  IF existingTodo # Null /\ existingTodo.userId # arg.userId
           THEN Return(c, "updateTodo", arg, Err(ErrUnauthorizedUpdate)) /\ UNCHANGED todoVars
           ELSE /\ TodoRepoUpdate(arg.data)
                /\ Return(c, "updateTodo", arg, TodoRepoUpdateResult(arg.data))
    /\ UNCHANGED <<extVars, authVars>>

\* mutant: the todo is marked completed whatever it was
toggleTodoDataSetTrue(id, todo) == [id |-> id, completed |-> TRUE]

\* the UpdateTodoDTO toggleTodo passes on: { id, completed: !todo.completed }
toggleTodoData(id, todo) == [id |-> id, completed |-> ~todo.completed]

\* mutant: the lookup and the update are one step, nothing can run in between
toggleTodoAtomic(c, id, userId) ==
    /\ Free(c)
    /\ LET arg == [id |-> id, userId |-> userId]
           todo == TodoRepoGetById(id)
       IN  IF todo = Null
           THEN Return(c, "toggleTodo", arg, Err(ErrTodoNotFound)) /\ UNCHANGED todoVars
           ELSE IF userId # "" /\ todo.userId # userId
           THEN Return(c, "toggleTodo", arg, Err(ErrUnauthorizedToggle)) /\ UNCHANGED todoVars
           ELSE /\ TodoRepoUpdate(toggleTodoData(id, todo))
                /\ Return(c, "toggleTodo", arg, TodoRepoUpdateResult(toggleTodoData(id, todo)))
    /\ UNCHANGED <<extVars, authVars>>

\* TodoUseCases.toggleTodo up to its await: the body of repository.getById
toggleTodo(c, id, userId) ==
    /\ Free(c)
    /\ Await(c, "toggleTodo_1", "toggleTodo", [id |-> id, userId |-> userId],
             [todo |-> TodoRepoGetById(id)])
    /\ UNCHANGED <<extVars, todoVars, authVars>>

\* mutant: the ownership check before the toggle is dropped
toggleTodo_1NoOwnerCheck(c) ==
    /\ calls[c].pc = "toggleTodo_1"
    /\ LET arg == calls[c].arg
           todo == calls[c].loc.todo
       IN  IF todo = Null
           THEN Return(c, "toggleTodo", arg, Err(ErrTodoNotFound)) /\ UNCHANGED todoVars
           ELSE LET data == toggleTodoData(arg.id, todo)
                IN  /\ TodoRepoUpdate(data)
                    /\ Return(c, "toggleTodo", arg, TodoRepoUpdateResult(data))
    /\ UNCHANGED <<extVars, authVars>>

toggleTodo_1(c) ==
    /\ calls[c].pc = "toggleTodo_1"
    /\ LET arg == calls[c].arg
           todo == calls[c].loc.todo
       IN  IF todo = Null
           THEN Return(c, "toggleTodo", arg, Err(ErrTodoNotFound)) /\ UNCHANGED todoVars
           ELSE IF arg.userId # "" /\ todo.userId # arg.userId
           THEN Return(c, "toggleTodo", arg, Err(ErrUnauthorizedToggle)) /\ UNCHANGED todoVars
           ELSE LET data == toggleTodoData(arg.id, todo)
                IN  /\ TodoRepoUpdate(data)
                    /\ Return(c, "toggleTodo", arg, TodoRepoUpdateResult(data))
    /\ UNCHANGED <<extVars, authVars>>

deleteTodo(c, id, userId) ==
    /\ Free(c)
    /\ LET arg == [id |-> id, userId |-> userId] IN
       IF userId # ""
       THEN /\ Await(c, "deleteTodo_1", "deleteTodo", arg, [todo |-> TodoRepoGetById(id)])
            /\ UNCHANGED todoVars
       ELSE /\ TodoRepoDelete(id)
            /\ Return(c, "deleteTodo", arg, TodoRepoDeleteResult(id))
    /\ UNCHANGED <<extVars, authVars>>

\* mutant: the ownership check before delete is dropped
deleteTodo_1NoCheck(c) ==
    /\ calls[c].pc = "deleteTodo_1"
    /\ TodoRepoDelete(calls[c].arg.id)
    /\ Return(c, "deleteTodo", calls[c].arg, TodoRepoDeleteResult(calls[c].arg.id))
    /\ UNCHANGED <<extVars, authVars>>

deleteTodo_1(c) ==
    /\ calls[c].pc = "deleteTodo_1"
    /\ LET arg == calls[c].arg
           todo == calls[c].loc.todo
       IN  IF todo # Null /\ todo.userId # arg.userId
           THEN Return(c, "deleteTodo", arg, Err(ErrUnauthorizedDelete)) /\ UNCHANGED todoVars
           ELSE /\ TodoRepoDelete(arg.id)
                /\ Return(c, "deleteTodo", arg, TodoRepoDeleteResult(arg.id))
    /\ UNCHANGED <<extVars, authVars>>

getActiveTodosCountValue(userId) ==
    LET Active(t) == ~t.completed IN Len(SelectSeq(getAllTodosValue(userId), Active))

getActiveTodosCount(c, userId) ==
    /\ Free(c)
    /\ Return(c, "getActiveTodosCount", [userId |-> userId], Ok(getActiveTodosCountValue(userId)))
    /\ UNCHANGED <<extVars, todoVars, authVars>>

\* mutant: every todo of the listing is counted as completed
getCompletedTodosCountValueAll(userId) == Len(getAllTodosValue(userId))

getCompletedTodosCountValue(userId) ==
    LET Completed(t) == t.completed IN Len(SelectSeq(getAllTodosValue(userId), Completed))

getCompletedTodosCount(c, userId) ==
    /\ Free(c)
    /\ Return(c, "getCompletedTodosCount", [userId |-> userId],
              Ok(getCompletedTodosCountValue(userId)))
    /\ UNCHANGED <<extVars, todoVars, authVars>>

\* the UpdateTodoDTO values a caller can pass for a given id
UpdateTodoInputs(id) ==
    {[id |-> id]}
        \cup {[id |-> id, title |-> t] : t \in TitleInputs}
        \cup {[id |-> id, completed |-> TRUE]}
        \cup {[id |-> id, title |-> <<"a">>, completed |-> FALSE]}

(* ------------------------- auth input sets ---------------------------- *)

EmailA == <<"a", "@", "x">>

EmailAUpper == <<"A", "@", "X">>

EmailB == <<"b", "@", "x">>

EmailNoAt == <<"a", "x">>

NameAbc == <<"a", "b", "c">>

NameAbcUpper == <<"A", "B", "C">>

NameXyz == <<"x", "y", "z">>

NameShort == <<"a", "b">>

\* passwords are only measured and compared whole, so they stay strings
RegisterInputs ==
    {[email |-> EmailA, username |-> NameAbc, password |-> "secret"],
     [email |-> EmailAUpper, username |-> NameXyz, password |-> "secret"],
     [email |-> EmailB, username |-> NameAbcUpper, password |-> "secret"],
     [email |-> EmailB, username |-> NameXyz, password |-> "hunter2"],
     [email |-> EmailNoAt, username |-> NameAbc, password |-> "secret"],
     [email |-> EmailB, username |-> NameShort, password |-> "secret"],
     [email |-> EmailB, username |-> NameXyz, password |-> "short"],
     [email |-> EmailAUpper, username |-> NameShort, password |-> "secret"],
     [email |-> <<>>, username |-> NameXyz, password |-> "secret"]}

LoginInputs ==
    {[email |-> EmailA, password |-> "secret"],
     [email |-> EmailAUpper, password |-> "secret"],
     [email |-> EmailA, password |-> "hunter2"],
     [email |-> EmailB, password |-> "hunter2"],
     [email |-> EmailB, password |-> ""],
     [email |-> <<>>, password |-> "secret"]}

\* tokens a caller can present: every token issued so far, and 0, a string that
\* was never issued (crypto.randomUUID values cannot be guessed in advance)
TokenInputs == 0..(nextToken - 1)

\* user ids a caller can name: those issued so far, and 0, never issued
UserIdArgs == 0..(nextUserId - 1)

ChangePasswordInputs ==
    {[userId |-> u, currentPassword |-> p[1], newPassword |-> p[2]] :
        u \in UserIdArgs,
        p \in {<<"secret", "hunter2">>, <<"hunter2", "secret">>,
               <<"secret", "short">>, <<"", "hunter2">>}}

(* --------------------------- string helpers --------------------------- *)

LowerChar(ch) ==
    CASE ch = "A" -> "a"
      [] ch = "B" -> "b"
      [] ch = "C" -> "c"
      [] ch = "X" -> "x"
      [] OTHER -> ch

\* String.prototype.toLowerCase
ToLowerCase(s) == [i \in 1..Len(s) |-> LowerChar(s[i])]

\* String.prototype.includes for a one-character needle
Includes(s, ch) == \E i \in 1..Len(s) : s[i] = ch

(* ----------------------- auth error messages -------------------------- *)

ErrInvalidEmail == "Invalid email address"

ErrUsernameShort == "Username must be at least 3 characters"

ErrPasswordShort == "Password must be at least 6 characters"

ErrEmailRegistered == "Email already registered"

ErrUsernameTaken == "Username already taken"

ErrMissingCredentials == "Email and password are required"

ErrInvalidCredentials == "Invalid email or password"

ErrUnauthorized == "Unauthorized"

ErrPasswordsRequired == "Current password and new password are required"

ErrNewPasswordShort == "New password must be at least 6 characters"

ErrUserNotFound == "User not found"

ErrCurrentPasswordIncorrect == "Current password is incorrect"

ErrInvalidSession == "Invalid or expired session"

ErrUserIdNotFound == "User with id not found"

(* ---------------------- InMemoryUserRepository ------------------------ *)

\* mutant: the stored record is handed on as it is
StripPasswordKeepAll(u) == u

\* const { passwordHash, ...user } = userWithPassword
StripPassword(u) == [k \in (DOMAIN u) \ {"passwordHash"} |-> u[k]]

\* mutant: the stored and the given email are compared as written
UserRepoGetByEmailExact(email) ==
    LET i == FindIndex({k \in 1..Len(users) : users[k].email = email})
    IN  IF i = 0 THEN Null ELSE users[i]

UserRepoGetByEmail(email) ==
    LET i == FindIndex({k \in 1..Len(users) :
                           ToLowerCase(users[k].email) = ToLowerCase(email)})
    IN  IF i = 0 THEN Null ELSE users[i]

NewUser(data) ==
    [id |-> nextUserId, email |-> ToLowerCase(data.email), username |-> data.username,
     passwordHash |-> data.password, createdAt |-> now]

UserRepoCreate(data) ==
    /\ users' = Append(users, NewUser(data))
    /\ nextUserId' = nextUserId + 1

UserRepoUpdateIndex(data) == FindIndex({k \in 1..Len(users) : users[k].id = data.id})

UserRepoUpdated(data) ==
    LET old == users[UserRepoUpdateIndex(data)]
        u   == IF "email" \in DOMAIN data
               THEN Spread(old, [email |-> ToLowerCase(data.email)]) ELSE old
    IN  IF "username" \in DOMAIN data THEN Spread(u, [username |-> data.username]) ELSE u

UserRepoUpdate(data) ==
    /\ users' = IF UserRepoUpdateIndex(data) = 0 THEN users
                ELSE [users EXCEPT ![UserRepoUpdateIndex(data)] = UserRepoUpdated(data)]
    /\ UNCHANGED nextUserId

\* mutant: the stored and the given email are compared as written
UserRepoEmailExistsCaseSensitive(email) == \E i \in 1..Len(users) : users[i].email = email

UserRepoEmailExists(email) ==
    \E i \in 1..Len(users) : ToLowerCase(users[i].email) = ToLowerCase(email)

UserRepoUsernameExists(username) ==
    \E i \in 1..Len(users) : ToLowerCase(users[i].username) = ToLowerCase(username)

(* ----------------------------- AuthUseCases --------------------------- *)

SessionHours == 24

\* Map.prototype.set / delete / has on the session table
MapSet(m, k, v) == [x \in (DOMAIN m) \cup {k} |-> IF x = k THEN v ELSE m[x]]

MapDelete(m, k) == [x \in (DOMAIN m) \ {k} |-> m[x]]

MapHas(m, k) == k \in DOMAIN m

\* mutant: the session lasts half as long
createSessionHalfDay(user) ==
    [user |-> user, token |-> nextToken, expiresAt |-> now + (SessionHours \div 2)]

\* the session createSession builds: a fresh random token, 24 hours from now
createSession(user) == [user |-> user, token |-> nextToken, expiresAt |-> now + SessionHours]

\* mutant: the token is not fresh, every session gets the same one
StoreNewSessionFixedToken(table, user) ==
    /\ nextToken <= MaxTokens
    /\ sessions' = MapSet(table, 1, [user |-> user, token |-> 1, expiresAt |-> now + SessionHours])
    /\ nextToken' = nextToken + 1

\* this.sessions.set(session.token, session) for a session made by createSession
StoreNewSession(table, user) ==
    /\ nextToken <= MaxTokens
    /\ sessions' = MapSet(table, nextToken, createSession(user))
    /\ nextToken' = nextToken + 1

\* mutant: the expiry check is dropped
validateSessionValueNoExpiry(token) ==
    IF ~MapHas(sessions, token) THEN Null ELSE sessions[token].user

\* the user validateSession returns, or Null
validateSessionValue(token) ==
    IF ~MapHas(sessions, token) THEN Null
    ELSE IF sessions[token].expiresAt < now THEN Null
    ELSE sessions[token].user

\* mutant: the entry of the token is deleted whether expired or not
validateSessionTableDropAlways(token) == MapDelete(sessions, token)

\* the session table validateSession leaves: an expired entry is deleted
validateSessionTable(token) ==
    IF MapHas(sessions, token) /\ sessions[token].expiresAt < now
    THEN MapDelete(sessions, token)
    ELSE sessions

NullToken == -1

isAuthenticatedValue(token) ==
    IF token = NullToken THEN FALSE
    ELSE IF ~MapHas(sessions, token) THEN FALSE
    ELSE sessions[token].expiresAt > now

\* mutant: the length of the password is not checked
registerNoPasswordCheck(c, data) ==
    /\ Free(c)
    /\ IF data.email = <<>> \/ ~Includes(data.email, "@")
       THEN Return(c, "register", data, Err(ErrInvalidEmail))
       ELSE IF data.username = <<>> \/ Len(data.username) < 3
       THEN Return(c, "register", data, Err(ErrUsernameShort))
       ELSE Await(c, "register_1", "register", data,
                  [emailExists |-> UserRepoEmailExists(data.email)])
    /\ UNCHANGED <<extVars, todoVars, authVars>>

register(c, data) ==
    /\ Free(c)
    /\ IF data.email = <<>> \/ ~Includes(data.email, "@")
       THEN Return(c, "register", data, Err(ErrInvalidEmail))
       ELSE IF data.username = <<>> \/ Len(data.username) < 3
       THEN Return(c, "register", data, Err(ErrUsernameShort))
       ELSE IF data.password = "" \/ Len(data.password) < 6
       THEN Return(c, "register", data, Err(ErrPasswordShort))
       ELSE Await(c, "register_1", "register", data,
                  [emailExists |-> UserRepoEmailExists(data.email)])
    /\ UNCHANGED <<extVars, todoVars, authVars>>

register_1(c) ==
    /\ calls[c].pc = "register_1"
    /\ LET data == calls[c].arg IN
       IF calls[c].loc.emailExists
       THEN Return(c, "register", data, Err(ErrEmailRegistered))
       ELSE Await(c, "register_2", "register", data,
                  [usernameExists |-> UserRepoUsernameExists(data.username)])
    /\ UNCHANGED <<extVars, todoVars, authVars>>

register_2(c) ==
    /\ calls[c].pc = "register_2"
    /\ LET data == calls[c].arg IN
       IF calls[c].loc.usernameExists
       THEN /\ Return(c, "register", data, Err(ErrUsernameTaken))
            /\ UNCHANGED <<users, nextUserId>>
       ELSE /\ nextUserId <= MaxUsers
            /\ UserRepoCreate(data)
            /\ Await(c, "register_3", "register", data, [userWithPassword |-> NewUser(data)])
    /\ UNCHANGED <<extVars, todoVars, sessions, nextToken, now>>

register_3(c) ==
    /\ calls[c].pc = "register_3"
    /\ LET user == StripPassword(calls[c].loc.userWithPassword) IN
       /\ StoreNewSession(sessions, user)
       /\ Return(c, "register", calls[c].arg, Ok(createSession(user)))
    /\ UNCHANGED <<extVars, todoVars, users, nextUserId, now>>

login(c, data) ==
    /\ Free(c)
    /\ IF data.email = <<>> \/ data.password = ""
       THEN Return(c, "login", data, Err(ErrMissingCredentials))
       ELSE Await(c, "login_1", "login", data,
                  [userWithPassword |-> UserRepoGetByEmail(data.email)])
    /\ UNCHANGED <<extVars, todoVars, authVars>>

\* mutant: an email that matches no user gets a message of its own
login_1UnknownEmailMessage(c) ==
    /\ calls[c].pc = "login_1"
    /\ LET data == calls[c].arg
           userWithPassword == calls[c].loc.userWithPassword
       IN  IF userWithPassword = Null
           THEN Return(c, "login", data, Err(ErrUserNotFound))
                /\ UNCHANGED <<sessions, nextToken>>
           ELSE IF userWithPassword.passwordHash # data.password
           THEN Return(c, "login", data, Err(ErrInvalidCredentials))
                /\ UNCHANGED <<sessions, nextToken>>
           ELSE /\ StoreNewSession(sessions, StripPassword(userWithPassword))
                /\ Return(c, "login", data, Ok(createSession(StripPassword(userWithPassword))))
    /\ UNCHANGED <<extVars, todoVars, users, nextUserId, now>>

login_1(c) ==
    /\ calls[c].pc = "login_1"
    /\ LET data == calls[c].arg
           userWithPassword == calls[c].loc.userWithPassword
       IN  IF userWithPassword = Null
           THEN Return(c, "login", data, Err(ErrInvalidCredentials))
                /\ UNCHANGED <<sessions, nextToken>>
           ELSE IF userWithPassword.passwordHash # data.password
           THEN Return(c, "login", data, Err(ErrInvalidCredentials))
                /\ UNCHANGED <<sessions, nextToken>>
           ELSE /\ StoreNewSession(sessions, StripPassword(userWithPassword))
                /\ Return(c, "login", data, Ok(createSession(StripPassword(userWithPassword))))
    /\ UNCHANGED <<extVars, todoVars, users, nextUserId, now>>

\* mutant: every session of the user of the token is removed
logoutAllOfUser(c, token) ==
    /\ Free(c)
    /\ sessions' = IF MapHas(sessions, token)
                   THEN [t \in {x \in DOMAIN sessions :
                                   sessions[x].user.id # sessions[token].user.id}
                           |-> sessions[t]]
                   ELSE sessions
    /\ Return(c, "logout", [token |-> token], Ok(Null))
    /\ UNCHANGED <<extVars, todoVars, users, nextUserId, nextToken, now>>

logout(c, token) ==
    /\ Free(c)
    /\ sessions' = MapDelete(sessions, token)
    /\ Return(c, "logout", [token |-> token], Ok(Null))
    /\ UNCHANGED <<extVars, todoVars, users, nextUserId, nextToken, now>>

\* mutant: validating a token sweeps every expired entry out of the table
validateSessionSweep(c, token) ==
    /\ Free(c)
    /\ sessions' = [t \in {x \in DOMAIN sessions : ~(sessions[x].expiresAt < now)}
                      |-> sessions[t]]
    /\ Return(c, "validateSession", [token |-> token], Ok(validateSessionValue(token)))
    /\ UNCHANGED <<extVars, todoVars, users, nextUserId, nextToken, now>>

validateSession(c, token) ==
    /\ Free(c)
    /\ sessions' = validateSessionTable(token)
    /\ Return(c, "validateSession", [token |-> token], Ok(validateSessionValue(token)))
    /\ UNCHANGED <<extVars, todoVars, users, nextUserId, nextToken, now>>

getCurrentUser(c, token) ==
    /\ Free(c)
    /\ sessions' = validateSessionTable(token)
    /\ Return(c, "getCurrentUser", [token |-> token], Ok(validateSessionValue(token)))
    /\ UNCHANGED <<extVars, todoVars, users, nextUserId, nextToken, now>>

changePassword(c, token, data) ==
    /\ Free(c)
    /\ sessions' = validateSessionTable(token)
    /\ Await(c, "changePassword_1", "changePassword", [token |-> token, data |-> data],
             [user |-> validateSessionValue(token)])
    /\ UNCHANGED <<extVars, todoVars, users, nextUserId, nextToken, now>>

changePassword_1(c) ==
    /\ calls[c].pc = "changePassword_1"
    /\ LET arg == calls[c].arg
           user == calls[c].loc.user
       IN  IF user = Null \/ user.id # arg.data.userId
           THEN Return(c, "changePassword", arg, Err(ErrUnauthorized))
           ELSE IF arg.data.currentPassword = "" \/ arg.data.newPassword = ""
           THEN Return(c, "changePassword", arg, Err(ErrPasswordsRequired))
           ELSE IF Len(arg.data.newPassword) < 6
           THEN Return(c, "changePassword", arg, Err(ErrNewPasswordShort))
           ELSE Await(c, "changePassword_2", "changePassword", arg,
                      [userWithPassword |-> UserRepoGetByEmail(user.email)])
    /\ UNCHANGED <<extVars, todoVars, authVars>>

\* the object { ...userWithPassword, passwordHash: newPassword } is built and
\* dropped: nothing is written back to the repository
changePassword_2(c) ==
    /\ calls[c].pc = "changePassword_2"
    /\ LET arg == calls[c].arg
           userWithPassword == calls[c].loc.userWithPassword
       IN  IF userWithPassword = Null
           THEN Return(c, "changePassword", arg, Err(ErrUserNotFound))
           ELSE IF userWithPassword.passwordHash # arg.data.currentPassword
           THEN Return(c, "changePassword", arg, Err(ErrCurrentPasswordIncorrect))
           ELSE Return(c, "changePassword", arg, Ok(Null))
    /\ UNCHANGED <<extVars, todoVars, authVars>>

refreshSession(c, token) ==
    /\ Free(c)
    /\ sessions' = validateSessionTable(token)
    /\ Await(c, "refreshSession_1", "refreshSession", [token |-> token],
             [user |-> validateSessionValue(token)])
    /\ UNCHANGED <<extVars, todoVars, users, nextUserId, nextToken, now>>

\* mutant: the old session is not deleted
refreshSession_1KeepOld(c) ==
    /\ calls[c].pc = "refreshSession_1"
    /\ LET arg == calls[c].arg
           user == calls[c].loc.user
       IN  IF user = Null
           THEN Return(c, "refreshSession", arg, Err(ErrInvalidSession))
                /\ UNCHANGED <<sessions, nextToken>>
           ELSE /\ StoreNewSession(sessions, user)
                /\ Return(c, "refreshSession", arg, Ok(createSession(user)))
    /\ UNCHANGED <<extVars, todoVars, users, nextUserId, now>>

refreshSession_1(c) ==
    /\ calls[c].pc = "refreshSession_1"
    /\ LET arg == calls[c].arg
           user == calls[c].loc.user
       IN  IF user = Null
           THEN Return(c, "refreshSession", arg, Err(ErrInvalidSession))
                /\ UNCHANGED <<sessions, nextToken>>
           ELSE /\ StoreNewSession(MapDelete(sessions, arg.token), user)
                /\ Return(c, "refreshSession", arg, Ok(createSession(user)))
    /\ UNCHANGED <<extVars, todoVars, users, nextUserId, now>>

\* mutant: the check removes an expired entry as validateSession does
isAuthenticatedWithCleanup(c, token) ==
    /\ Free(c)
    /\ sessions' = validateSessionTable(token)
    /\ Return(c, "isAuthenticated", [token |-> token], Ok(isAuthenticatedValue(token)))
    /\ UNCHANGED <<extVars, todoVars, users, nextUserId, nextToken, now>>

isAuthenticated(c, token) ==
    /\ Free(c)
    /\ Return(c, "isAuthenticated", [token |-> token], Ok(isAuthenticatedValue(token)))
    /\ UNCHANGED <<extVars, todoVars, authVars>>

(* ------------- direct calls of the user repository ------------------- *)

UpdateUserInputs ==
    {[id |-> u, email |-> EmailAUpper] : u \in UserIdArgs}
        \cup {[id |-> u, username |-> NameAbcUpper] : u \in UserIdArgs}

userRepoCreate(c, data) ==
    /\ Free(c)
    /\ nextUserId <= MaxUsers
    /\ UserRepoCreate(data)
    /\ Return(c, "userRepository.create", data, Ok(NewUser(data)))
    /\ UNCHANGED <<extVars, todoVars, sessions, nextToken, now>>

userRepoUpdate(c, data) ==
    /\ Free(c)
    /\ UserRepoUpdate(data)
    /\ Return(c, "userRepository.update", data,
              IF UserRepoUpdateIndex(data) = 0 THEN Err(ErrUserIdNotFound)
              ELSE Ok(StripPassword(UserRepoUpdated(data))))
    /\ UNCHANGED <<extVars, todoVars, sessions, nextToken, now>>

\* the clock read by new Date() moves on between steps
Tick ==
    /\ now + TickHours <= MaxTime
    /\ now' = now + TickHours
    /\ UNCHANGED <<extVars, todoVars, users, nextUserId, sessions, nextToken, calls>>

(* ------------------ FetchHttpClient and the Api repositories ---------- *)

\* what the server sends as the body of a 2xx response
SampleTodo ==
    [id |-> "t1", title |-> <<"a">>, completed |-> FALSE, userId |-> "u1", createdAt |-> 0]

SampleUser == [id |-> "u1", email |-> EmailA, username |-> NameAbc, createdAt |-> 0]

SampleUserWithPassword == Spread(SampleUser, [passwordHash |-> "secret"])

ApiTodoIdInputs == {"t1", "t2"}

ApiUserIdInputs == {"u1", "u2"}

ApiEmailInputs == {EmailA, EmailB}

ApiUsernameInputs == {NameAbc, NameXyz}

\* the 2xx bodies the server can send for a request of the method, numbered
ApiBodies(op) ==
    CASE op \in {"ApiTodoRepository.getAll", "ApiTodoRepository.getAllByUserId"}
            -> <<<<>>, <<SampleTodo>>>>
      [] op \in {"ApiTodoRepository.getById", "ApiTodoRepository.create",
                 "ApiTodoRepository.update"}
            -> <<SampleTodo>>
      [] op \in {"ApiUserRepository.getById", "ApiUserRepository.update"}
            -> <<SampleUser>>
      [] op \in {"ApiUserRepository.getByEmail", "ApiUserRepository.create"}
            -> <<SampleUserWithPassword>>
      [] op \in {"ApiUserRepository.emailExists", "ApiUserRepository.usernameExists"}
            -> <<[exists |-> TRUE], [exists |-> FALSE]>>
      [] OTHER -> <<Null>>

\* how a fetch can end: a response with a status (2xx with one of the bodies,
\* not found, server error), or a rejected fetch when the network fails
FetchOutcomes(op) ==
    {[kind |-> "response", status |-> 200, body |-> b] : b \in 1..Len(ApiBodies(op))}
        \cup {[kind |-> "response", status |-> st, body |-> 0] : st \in {404, 500}}
        \cup {[kind |-> "networkError", status |-> 0, body |-> 0]}

ErrFailedToFetch == "TypeError: Failed to fetch"

\* `HTTP ${response.status}: ${response.statusText}`
ErrHttp(status) == <<"HTTP", status>>

\* response.ok
ResponseOk(o) == o.status \in 200..299

\* FetchHttpClient.request: a rejected fetch and a response that is not ok both
\* throw, otherwise { data, status, headers } is returned
FetchRequest(op, o) ==
    IF o.kind = "networkError" THEN Err(ErrFailedToFetch)
    ELSE IF ~ResponseOk(o) THEN Err(ErrHttp(o.status))
    ELSE Ok([data |-> ApiBodies(op)[o.body], status |-> o.status])

\* a repository method sends its request and awaits the http client
ApiSend(c, op, arg) ==
    /\ Free(c)
    /\ Await(c, "http", op, arg, [sent |-> TRUE])
    /\ UNCHANGED <<extVars, todoVars, authVars>>

\* the request in flight settles: the awaited promise resolves or rejects
fetchSettles(c, o) ==
    /\ calls[c].pc = "http"
    /\ o \in FetchOutcomes(calls[c].op)
    /\ Await(c, "settled", calls[c].op, calls[c].arg,
             [outcome |-> o, response |-> FetchRequest(calls[c].op, o)])
    /\ UNCHANGED <<extVars, todoVars, authVars>>

\* the method of slot c resumes after its await and ends with result r
ApiResume(c, ops, r) ==
    /\ calls[c].pc = "settled"
    /\ calls[c].op \in ops
    /\ Return(c, calls[c].op, calls[c].arg, r)
    /\ UNCHANGED <<extVars, todoVars, authVars>>

\* return response.data, outside any try: a thrown error goes to the caller
ResponseData(c) ==
    IF calls[c].loc.response.ok THEN Ok(calls[c].loc.response.value.data)
    ELSE calls[c].loc.response

\* try { return response.data } catch (error) { return null }
ResponseDataOrNull(c) ==
    IF calls[c].loc.response.ok THEN Ok(calls[c].loc.response.value.data) ELSE Ok(Null)

\* try { return response.data.exists } catch (error) { return false }
ResponseExistsOrFalse(c) ==
    IF calls[c].loc.response.ok THEN Ok(calls[c].loc.response.value.data.exists)
    ELSE Ok(FALSE)

\* await this.httpClient.delete(...): resolves with nothing, or throws
ResponseVoid(c) == IF calls[c].loc.response.ok THEN Ok(Null) ELSE calls[c].loc.response

apiTodoGetAll(c) == ApiSend(c, "ApiTodoRepository.getAll", [none |-> TRUE])

apiTodoGetAllByUserId(c, userId) ==
    ApiSend(c, "ApiTodoRepository.getAllByUserId", [userId |-> userId])

apiTodoGetById(c, id) == ApiSend(c, "ApiTodoRepository.getById", [id |-> id])

apiTodoCreate(c, data, userId) ==
    ApiSend(c, "ApiTodoRepository.create", [data |-> data, userId |-> userId])

apiTodoUpdate(c, data) == ApiSend(c, "ApiTodoRepository.update", [data |-> data])

apiTodoDelete(c, id) == ApiSend(c, "ApiTodoRepository.delete", [id |-> id])

apiTodoGetAll_1(c) ==
    ApiResume(c, {"ApiTodoRepository.getAll", "ApiTodoRepository.getAllByUserId"},
              ResponseData(c))

apiTodoGetById_1(c) == ApiResume(c, {"ApiTodoRepository.getById"}, ResponseDataOrNull(c))

apiTodoWrite_1(c) ==
    ApiResume(c, {"ApiTodoRepository.create", "ApiTodoRepository.update"}, ResponseData(c))

apiTodoDelete_1(c) == ApiResume(c, {"ApiTodoRepository.delete"}, ResponseVoid(c))

apiUserGetById(c, id) == ApiSend(c, "ApiUserRepository.getById", [id |-> id])

apiUserGetByEmail(c, email) == ApiSend(c, "ApiUserRepository.getByEmail", [email |-> email])

apiUserEmailExists(c, email) ==
    ApiSend(c, "ApiUserRepository.emailExists", [email |-> email])

apiUserUsernameExists(c, username) ==
    ApiSend(c, "ApiUserRepository.usernameExists", [username |-> username])

apiUserCreate(c, data) == ApiSend(c, "ApiUserRepository.create", [data |-> data])

apiUserUpdate(c, id, data) == ApiSend(c, "ApiUserRepository.update", [id |-> id, data |-> data])

apiUserDelete(c, id) == ApiSend(c, "ApiUserRepository.delete", [id |-> id])

apiUserLookup_1(c) ==
    ApiResume(c, {"ApiUserRepository.getById", "ApiUserRepository.getByEmail"},
              ResponseDataOrNull(c))

apiUserExists_1(c) ==
    ApiResume(c, {"ApiUserRepository.emailExists", "ApiUserRepository.usernameExists"},
              ResponseExistsOrFalse(c))

apiUserWrite_1(c) ==
    ApiResume(c, {"ApiUserRepository.create", "ApiUserRepository.update"}, ResponseData(c))

apiUserDelete_1(c) == ApiResume(c, {"ApiUserRepository.delete"}, ResponseVoid(c))

(* ------- object identity in InMemoryTodoRepository (array of todos) ---- *)

\* heap is the sequence of the objects allocated so far and an address is a
\* position in it; memTodos is this.todos, an array of addresses; held is the
\* value the caller got from its last call: nothing, null, one object, or a new
\* array of addresses.
NothingHeld == [kind |-> "nothing", refs |-> <<>>]

HeldNull == [kind |-> "null", refs |-> <<>>]

HeldObject(a) == [kind |-> "object", refs |-> <<a>>]

HeldArray(as) == [kind |-> "array", refs |-> as]

AliasTitleInputs == {<<"a">>}

AliasUserInputs == {"u1", "u2"}

\* crypto.randomUUID(): a fresh id; the address of the new object serves as one
AliasIdInputs == 1..MaxObjects

AliasUpdateInputs ==
    {[id |-> i, title |-> <<"c">>] : i \in AliasIdInputs}
        \cup {[id |-> i, completed |-> TRUE] : i \in AliasIdInputs}

\* the todos the repository holds, by value, in array order
StoreContents == [i \in 1..Len(memTodos) |-> heap[memTodos[i]]]

\* the position in this.todos of the todo with this id, 0 when absent
AliasIndex(id) == FindIndex({i \in 1..Len(memTodos) : heap[memTodos[i]].id = id})

\* create: builds newTodo, pushes it and returns that same object
aliasCreate(title, userId) ==
    /\ Len(heap) < MaxObjects
    /\ heap' = Append(heap, [id |-> Len(heap) + 1, title |-> title, completed |-> FALSE,
                             userId |-> userId, createdAt |-> now])
    /\ memTodos' = Append(memTodos, Len(heap) + 1)
    /\ held' = HeldObject(Len(heap) + 1)
    /\ UNCHANGED <<viewVars, coreVars, storageVars, obsVars, todoUcVars, authUcVars>>

\* getAll: [...this.todos], a new array of the same objects
aliasGetAll ==
    /\ held' = HeldArray(memTodos)
    /\ UNCHANGED <<heap, memTodos>>
    /\ UNCHANGED <<viewVars, coreVars, storageVars, obsVars, todoUcVars, authUcVars>>

\* getAllByUserId: filter gives a new array of the matching objects
aliasGetAllByUserId(userId) ==
    /\ LET Owned(a) == heap[a].userId = userId
       IN  held' = HeldArray(SelectSeq(memTodos, Owned))
    /\ UNCHANGED <<heap, memTodos>>
    /\ UNCHANGED <<viewVars, coreVars, storageVars, obsVars, todoUcVars, authUcVars>>

\* getById: find gives the stored object itself, or null
aliasGetById(id) ==
    /\ held' = IF AliasIndex(id) = 0 THEN HeldNull
               ELSE HeldObject(memTodos[AliasIndex(id)])
    /\ UNCHANGED <<heap, memTodos>>
    /\ UNCHANGED <<viewVars, coreVars, storageVars, obsVars, todoUcVars, authUcVars>>

\* update: a new object takes the place of the stored one and is returned;
\* an unknown id throws and changes nothing
aliasUpdate(data) ==
    /\ Len(heap) < MaxObjects
    /\ LET index == AliasIndex(data.id)
       IN  IF index = 0
           THEN UNCHANGED aliasVars
           ELSE /\ heap' = Append(heap, Spread(heap[memTodos[index]],
                                               [k \in (DOMAIN data) \ {"id"} |-> data[k]]))
                /\ memTodos' = [memTodos EXCEPT ![index] = Len(heap) + 1]
                /\ held' = HeldObject(Len(heap) + 1)
    /\ UNCHANGED <<viewVars, coreVars, storageVars, obsVars, todoUcVars, authUcVars>>

\* delete: splice(index, 1); an unknown id throws and changes nothing
aliasDelete(id) ==
    /\ AliasIndex(id) # 0
    /\ memTodos' = RemoveAt(memTodos, AliasIndex(id))
    /\ UNCHANGED <<heap, held>>
    /\ UNCHANGED <<viewVars, coreVars, storageVars, obsVars, todoUcVars, authUcVars>>

\* the caller assigns to a property of an object it was handed
callerSetsCompleted(i) ==
    /\ i \in 1..Len(held.refs)
    /\ ~heap[held.refs[i]].completed
    /\ heap' = [heap EXCEPT ![held.refs[i]].completed = TRUE]
    /\ UNCHANGED <<memTodos, held>>
    /\ UNCHANGED <<viewVars, coreVars, storageVars, obsVars, todoUcVars, authUcVars>>

callerSetsTitle(i) ==
    /\ i \in 1..Len(held.refs)
    /\ heap[held.refs[i]].title # <<"z">>
    /\ heap' = [heap EXCEPT ![held.refs[i]].title = <<"z">>]
    /\ UNCHANGED <<memTodos, held>>
    /\ UNCHANGED <<viewVars, coreVars, storageVars, obsVars, todoUcVars, authUcVars>>

\* the caller pops the last element off an array it was handed
callerPops ==
    /\ held.kind = "array"
    /\ held.refs # <<>>
    /\ held' = HeldArray(SubSeq(held.refs, 1, Len(held.refs) - 1))
    /\ UNCHANGED <<heap, memTodos>>
    /\ UNCHANGED <<viewVars, coreVars, storageVars, obsVars, todoUcVars, authUcVars>>

Digits == <<"0", "1", "2", "3", "4", "5", "6", "7", "8", "9">>

\* String(n) for a non-negative integer: its decimal digits
RECURSIVE StringOf(_)
StringOf(n) ==
    IF n < 10 THEN <<Digits[n + 1]>>
    ELSE Append(StringOf(n \div 10), Digits[(n % 10) + 1])

(* ------------- LocalStorageTodoRepository (adapters) ------------------ *)

\* the repository objects built over the one localStorage
Instances == {"r1", "r2"}

\* nextId of an instance whose constructor has not run
NotConstructed == 0

IsDigit(ch) == \E i \in 1..10 : Digits[i] = ch

DigitValue(ch) == (CHOOSE i \in 1..10 : Digits[i] = ch) - 1

\* the number a sequence of decimal digits stands for
RECURSIVE DigitsValue(_)
DigitsValue(ds) ==
    IF ds = <<>> THEN 0
    ELSE DigitsValue(SubSeq(ds, 1, Len(ds) - 1)) * 10 + DigitValue(ds[Len(ds)])

\* the longest prefix of s made of decimal digits
RECURSIVE DigitPrefix(_)
DigitPrefix(s) ==
    IF s = <<>> \/ ~IsDigit(s[1]) THEN <<>>
    ELSE <<s[1]>> \o DigitPrefix(Tail(s))

NaN == [nan |-> TRUE, value |-> 0]

\* parseInt(s, 10): leading whitespace is skipped, a sign is accepted, the
\* longest run of digits is read and what follows is ignored; no digit gives NaN
ParseInt(s) ==
    LET t == TrimStart(s)
        signed == t # <<>> /\ t[1] \in {"-", "+"}
        ds == DigitPrefix(IF signed THEN Tail(t) ELSE t)
    IN  IF ds = <<>> THEN NaN
        ELSE [nan |-> FALSE,
              value |-> IF signed /\ t[1] = "-" THEN 0 - DigitsValue(ds)
                        ELSE DigitsValue(ds)]

\* String(n) for any integer
StringOfInt(n) == IF n < 0 THEN <<"-">> \o StringOf(0 - n) ELSE StringOf(n)

\* a Date object, by its time value
DateAt(t) == [valid |-> TRUE, time |-> t]

InvalidDate == [valid |-> FALSE, time |-> 0]

\* the text JSON.stringify writes for a Date (Date.prototype.toJSON); the time
\* value in decimal stands for the ISO text, null for an invalid date
DateToJSON(d) == IF d.valid THEN StringOf(d.time) ELSE <<"n", "u", "l", "l">>

NewDateWholeTens(text) ==
    IF text # <<>> /\ DigitPrefix(text) = text
    THEN DateAt((DigitsValue(text) \div 10) * 10)
    ELSE InvalidDate

\* new Date(text)
NewDate(text) ==
    IF text # <<>> /\ DigitPrefix(text) = text THEN DateAt(DigitsValue(text))
    ELSE InvalidDate

\* one todo as JSON.stringify writes it: strings and booleans as they are,
\* the two dates as text
LsSaved(todo) ==
    [todo EXCEPT !.createdAt = DateToJSON(@), !.updatedAt = DateToJSON(@)]

\* one parsed entry as loadFromStorage maps it: the two texts back to Dates
LsLoaded(t) == [t EXCEPT !.createdAt = NewDate(@), !.updatedAt = NewDate(@)]

\* Todo.toJSON and Todo.fromJSON of the Todo class
TodoToJSON(todo) ==
    [id |-> todo.id, title |-> todo.title, completed |-> todo.completed,
     createdAt |-> DateToJSON(todo.createdAt)]

TodoFromJSON(obj) ==
    [id |-> obj.id, title |-> obj.title, completed |-> obj.completed,
     createdAt |-> NewDate(obj.createdAt)]

\* the other LocalStorageTodoRepository (todos with userId and createdAt): what
\* saveTodos writes for one todo and what getTodos makes of one parsed entry
CoreSaved(todo) == [todo EXCEPT !.createdAt = DateToJSON(@)]

CoreLoaded(t) == [t EXCEPT !.createdAt = NewDate(@)]

\* saveToStorage(todos): the value of the item afterwards
SaveToStorage(ts) == [i \in 1..Len(ts) |-> LsSaved(ts[i])]

\* loadFromStorage() of a given item value
LoadOf(item) == [i \in 1..Len(item) |-> LsLoaded(item[i])]

loadFromStorage == LoadOf(storage)

\* ids found in storage before any instance is built: written by an earlier
\* session or by the other repository that uses the key "todos"
SeedIdInputs == {<<"a", "b", "c">>, <<"2", "x">>, <<"2">>}

LsCreateInputs == {[title |-> <<"a", "b", "c">>, description |-> "d"]}

LsUpdateInputs == {[completed |-> TRUE]}

\* ids a caller can name
LsIdInputs == SeedIdInputs \cup {StringOf(i) : i \in 1..MaxNextId}

\* the constructor's nextId for a loaded collection
LsInitialNextId(ts) ==
    LET numericIds == {ParseInt(ts[i].id).value :
                           i \in {j \in 1..Len(ts) : ~ParseInt(ts[j].id).nan}}
    IN  IF numericIds # {}
        THEN (CHOOSE m \in numericIds : \A n \in numericIds : n <= m) + 1
        ELSE 1

lsSeed(id) ==
    /\ \A r \in Instances : lsNextId[r] = NotConstructed
    /\ storage = <<>>
    /\ storage' = Append(storage,
                         LsSaved([id |-> id, title |-> <<"o", "l", "d">>,
                                  description |-> "d", completed |-> FALSE,
                                  createdAt |-> DateAt(now), updatedAt |-> DateAt(now)]))
    /\ UNCHANGED lsNextId
    /\ UNCHANGED <<viewVars, coreVars, aliasVars, obsVars, todoUcVars, authUcVars>>

\* new LocalStorageTodoRepository()
lsConstruct(r) ==
    /\ lsNextId[r] = NotConstructed
    /\ lsNextId' = [lsNextId EXCEPT ![r] = LsInitialNextId(loadFromStorage)]
    /\ UNCHANGED storage
    /\ UNCHANGED <<viewVars, coreVars, aliasVars, obsVars, todoUcVars, authUcVars>>

\* the todo create builds
LsNewTodo(r, input) ==
    [id |-> StringOfInt(lsNextId[r]), title |-> input.title,
     description |-> input.description, completed |-> FALSE,
     createdAt |-> DateAt(now), updatedAt |-> DateAt(now)]

lsCreate(r, input) ==
    /\ lsNextId[r] # NotConstructed
    /\ lsNextId[r] <= MaxNextId
    /\ Len(storage) < MaxStored
    /\ storage' = SaveToStorage(Append(loadFromStorage, LsNewTodo(r, input)))
    /\ lsNextId' = [lsNextId EXCEPT ![r] = @ + 1]
    /\ UNCHANGED <<viewVars, coreVars, aliasVars, obsVars, todoUcVars, authUcVars>>

\* the position in the loaded array of the todo with this id, 0 when absent
LsIndex(id) == FindIndex({i \in 1..Len(storage) : loadFromStorage[i].id = id})

\* the todo update builds from the loaded one
LsUpdated(todo, input) ==
    [todo EXCEPT !.title = IF "title" \in DOMAIN input THEN input.title ELSE @,
                 !.description =
                     IF "description" \in DOMAIN input THEN input.description ELSE @,
                 !.completed = IF "completed" \in DOMAIN input THEN input.completed ELSE @,
                 !.updatedAt = DateAt(now)]

\* update: an unknown id throws before anything is saved
lsUpdate(r, id, input) ==
    /\ lsNextId[r] # NotConstructed
    /\ LsIndex(id) # 0
    /\ storage' = SaveToStorage([loadFromStorage EXCEPT
                                     ![LsIndex(id)] = LsUpdated(@, input)])
    /\ UNCHANGED lsNextId
    /\ UNCHANGED <<viewVars, coreVars, aliasVars, obsVars, todoUcVars, authUcVars>>

lsDelete(r, id) ==
    /\ lsNextId[r] # NotConstructed
    /\ LET Other(t) == t.id # id
       IN  storage' = SaveToStorage(SelectSeq(loadFromStorage, Other))
    /\ UNCHANGED lsNextId
    /\ UNCHANGED <<viewVars, coreVars, aliasVars, obsVars, todoUcVars, authUcVars>>

(* --------------------------- SimpleObservable -------------------------- *)

Observers == {"o1", "o2", "o3"}

DataInputs == {1, 2}

NeverCalled == [count |-> 0, last |-> Null]

\* one more call of an observer, with data
Called(r, data) == [count |-> r.count + 1, last |-> data]

\* subscribe(observer): Set.add, and the caller gets the closure that deletes
\* this observer.
subscribe(o) ==
    /\ observers' = observers \cup {o}
    /\ handles' = handles \cup {o}
    /\ UNCHANGED received

\* the closure returned by subscribe: Set.delete of the observer it was made
\* for; it can be called any number of times.
unsubscribe(o) ==
    /\ o \in handles
    /\ observers' = observers \ {o}
    /\ UNCHANGED <<handles, received>>

notifyEveryHandleHolder(data) ==
    /\ received' = [o \in Observers |->
                       IF o \in handles THEN Called(received[o], data)
                       ELSE received[o]]
    /\ UNCHANGED <<observers, handles>>

\* notify(data): forEach over the Set calls every member once with data.
notify(data) ==
    /\ received' = [o \in Observers |->
                       IF o \in observers THEN Called(received[o], data)
                       ELSE received[o]]
    /\ UNCHANGED <<observers, handles>>

obsSubscribe(o) ==
    /\ subscribe(o)
    /\ UNCHANGED <<viewVars, coreVars, aliasVars, storageVars, todoUcVars, authUcVars>>

obsUnsubscribe(o) ==
    /\ unsubscribe(o)
    /\ UNCHANGED <<viewVars, coreVars, aliasVars, storageVars, todoUcVars, authUcVars>>

obsNotify(data) ==
    /\ \A o \in Observers : received[o].count < MaxNotifications
    /\ notify(data)
    /\ UNCHANGED <<viewVars, coreVars, aliasVars, storageVars, todoUcVars, authUcVars>>

\* calls of the use case that have not completed yet
UcPending == Cardinality({c \in Slots : ~Free(c)})

\* room for the notification of one more call
UcRoom == \A o \in Observers : received[o].count + UcPending < MaxNotifications

(* -------- TodoUseCase (observable) over InMemoryTodoRepository (Map) --- *)

ErrUcTitleShort == "Todo title must be at least 3 characters"

ErrMapTodoNotFound == "Todo not found"

UcTitleInputs == {<<"a", "b", "c">>, <<" ", "a", "b", " ">>, <<" ">>, <<>>}

UcCreateInputs == {[title |-> t, description |-> "d"] : t \in UcTitleInputs}

\* UpdateTodoInput: every field is optional
UcUpdateInputs == {[title |-> <<"x">>], [title |-> <<" ">>], [completed |-> TRUE]}

\* ids a caller can name: those the repository can issue and one it never issues
UcIdInputs == {StringOf(i) : i \in 1..(MaxTodos + 1)}

\* Map.prototype.get: the position of the entry with this key, 0 when absent
MapIndex(id) == FindIndex({i \in 1..Len(mapTodos) : mapTodos[i].id = id})

\* InMemoryTodoRepository.getAll: Array.from(this.todos.values())
MapRepoGetAll == mapTodos

\* the todo InMemoryTodoRepository.create builds
MapRepoNewTodo(input) ==
    [id |-> StringOf(mapNextId), title |-> input.title,
     description |-> input.description, completed |-> FALSE,
     createdAt |-> now, updatedAt |-> now]

\* the todo InMemoryTodoRepository.update builds from the stored one
MapRepoUpdated(todo, input) ==
    [todo EXCEPT !.title = IF "title" \in DOMAIN input THEN input.title ELSE @,
                 !.description =
                     IF "description" \in DOMAIN input THEN input.description ELSE @,
                 !.completed = IF "completed" \in DOMAIN input THEN input.completed ELSE @,
                 !.updatedAt = now]

\* InMemoryTodoRepository.update: what it returns or throws
MapRepoUpdateResult(id, input) ==
    IF MapIndex(id) = 0 THEN Err(ErrMapTodoNotFound)
    ELSE Ok(MapRepoUpdated(mapTodos[MapIndex(id)], input))

\* the Map after InMemoryTodoRepository.update: Map.set on an existing key
\* keeps its position
MapRepoAfterUpdate(id, input) ==
    IF MapIndex(id) = 0 THEN mapTodos
    ELSE [mapTodos EXCEPT ![MapIndex(id)] = MapRepoUpdated(@, input)]

\* the Map after InMemoryTodoRepository.delete
MapRepoAfterDelete(id) ==
    LET Other(t) == t.id # id IN SelectSeq(mapTodos, Other)

\* the methods of this repository are async functions without an await of
\* their own, so the promise a call returns is settled when the call returns
\* and the continuation of the use case that awaits it is queued at once:
\* continuations run in the order of the calls
Suspend(c) == microtasks' = Append(microtasks, c)

\* mutant: the continuations run in any order
ResumeAnyOrder(c) ==
    /\ \E i \in 1..Len(microtasks) : microtasks[i] = c
    /\ microtasks' = LET Other(x) == x # c IN SelectSeq(microtasks, Other)

\* the continuation of the call in slot c is the next microtask
Resume(c) ==
    /\ microtasks # <<>>
    /\ Head(microtasks) = c
    /\ microtasks' = Tail(microtasks)

\* another holder of the repository calls create / delete on it directly
mapRepoCreate(input) ==
    /\ mapNextId <= MaxTodos
    /\ mapTodos' = Append(mapTodos, MapRepoNewTodo(input))
    /\ mapNextId' = mapNextId + 1
    /\ UNCHANGED <<ucTodos, microtasks, obsVars>>
    /\ UNCHANGED <<viewVars, coreVars, aliasVars, storageVars, authUcVars>>

mapRepoDelete(id) ==
    /\ mapTodos' = MapRepoAfterDelete(id)
    /\ UNCHANGED <<ucTodos, mapNextId, microtasks, obsVars>>
    /\ UNCHANGED <<viewVars, coreVars, aliasVars, storageVars, authUcVars>>

\* TodoUseCase.loadTodos up to its await: the body of repository.getAll
loadTodos(c) ==
    /\ Free(c)
    /\ UcRoom
    /\ Await(c, "loadTodos_1", "TodoUseCase.loadTodos", Null, [list |-> MapRepoGetAll])
    /\ Suspend(c)
    /\ UNCHANGED <<ucTodos, mapTodos, mapNextId, obsVars>>
    /\ UNCHANGED <<viewVars, todoVars, authVars, aliasVars, storageVars, authUcVars>>

loadTodos_1(c) ==
    /\ calls[c].pc = "loadTodos_1"
    /\ Resume(c)
    /\ ucTodos' = calls[c].loc.list
    /\ notify(calls[c].loc.list)
    /\ Return(c, "TodoUseCase.loadTodos", Null, Ok(Null))
    /\ UNCHANGED <<mapTodos, mapNextId>>
    /\ UNCHANGED <<viewVars, todoVars, authVars, aliasVars, storageVars, authUcVars>>

\* mutant: the length rule asks for two characters
UcTitleErrorUnderTwo(title) ==
    IF Trim(title) = <<>> THEN ErrTitleEmpty
    ELSE IF Len(Trim(title)) < 2 THEN ErrUcTitleShort
    ELSE ""

\* the two business rules on a title
UcTitleError(title) ==
    IF Trim(title) = <<>> THEN ErrTitleEmpty
    ELSE IF Len(Trim(title)) < 3 THEN ErrUcTitleShort
    ELSE ""

\* TodoUseCase.createTodo up to its await: the rules, then the body of
\* repository.create
ucCreateTodo(c, input) ==
    /\ Free(c)
    /\ UcRoom
    /\ IF UcTitleError(input.title) # ""
       THEN /\ Return(c, "TodoUseCase.createTodo", input, Err(UcTitleError(input.title)))
            /\ UNCHANGED <<mapTodos, mapNextId, microtasks>>
       ELSE /\ mapNextId <= MaxTodos
            /\ mapTodos' = Append(mapTodos, MapRepoNewTodo(input))
            /\ mapNextId' = mapNextId + 1
            /\ Await(c, "ucCreateTodo_1", "TodoUseCase.createTodo", input,
                     [todo |-> MapRepoNewTodo(input)])
            /\ Suspend(c)
    /\ UNCHANGED <<ucTodos, obsVars>>
    /\ UNCHANGED <<viewVars, todoVars, authVars, aliasVars, storageVars, authUcVars>>

ucCreateTodo_1NotifyBeforePush(c) ==
    /\ calls[c].pc = "ucCreateTodo_1"
    /\ Resume(c)
    /\ ucTodos' = Append(ucTodos, calls[c].loc.todo)
    /\ notify(ucTodos)
    /\ Return(c, "TodoUseCase.createTodo", calls[c].arg, Ok(calls[c].loc.todo))
    /\ UNCHANGED <<mapTodos, mapNextId>>
    /\ UNCHANGED <<viewVars, todoVars, authVars, aliasVars, storageVars, authUcVars>>

\* TodoUseCase.createTodo after the await
ucCreateTodo_1(c) ==
    /\ calls[c].pc = "ucCreateTodo_1"
    /\ Resume(c)
    /\ ucTodos' = Append(ucTodos, calls[c].loc.todo)
    /\ notify(Append(ucTodos, calls[c].loc.todo))
    /\ Return(c, "TodoUseCase.createTodo", calls[c].arg, Ok(calls[c].loc.todo))
    /\ UNCHANGED <<mapTodos, mapNextId>>
    /\ UNCHANGED <<viewVars, todoVars, authVars, aliasVars, storageVars, authUcVars>>

\* the position of the todo with this id in the local list, 0 when absent
UcIndex(id) == FindIndex({i \in 1..Len(ucTodos) : ucTodos[i].id = id})

\* TodoUseCase.updateTodo up to its await, called as op: the rules on a given
\* title, then the body of repository.update
ucUpdateTodoBody(c, op, id, input) ==
    /\ IF "title" \in DOMAIN input /\ UcTitleError(input.title) # ""
       THEN /\ Return(c, op, [id |-> id, input |-> input],
                      Err(UcTitleError(input.title)))
            /\ UNCHANGED <<mapTodos, microtasks>>
       ELSE /\ mapTodos' = MapRepoAfterUpdate(id, input)
            /\ Await(c, "ucUpdateTodo_1", op, [id |-> id, input |-> input],
                     [result |-> MapRepoUpdateResult(id, input)])
            /\ Suspend(c)
    /\ UNCHANGED <<ucTodos, mapNextId, obsVars>>
    /\ UNCHANGED <<viewVars, todoVars, authVars, aliasVars, storageVars, authUcVars>>

ucUpdateTodo(c, id, input) ==
    /\ Free(c)
    /\ UcRoom
    /\ ucUpdateTodoBody(c, "TodoUseCase.updateTodo", id, input)

\* TodoUseCase.updateTodo after the await
ucUpdateTodo_1(c) ==
    /\ calls[c].pc = "ucUpdateTodo_1"
    /\ Resume(c)
    /\ LET r == calls[c].loc.result
           index == UcIndex(calls[c].arg.id)
       IN  IF ~r.ok
           THEN /\ Return(c, calls[c].op, calls[c].arg, r)
                /\ UNCHANGED <<ucTodos, obsVars>>
           ELSE /\ IF index # 0
                   THEN /\ ucTodos' = [ucTodos EXCEPT ![index] = r.value]
                        /\ notify([ucTodos EXCEPT ![index] = r.value])
                   ELSE UNCHANGED <<ucTodos, obsVars>>
                /\ Return(c, calls[c].op, calls[c].arg, r)
    /\ UNCHANGED <<mapTodos, mapNextId>>
    /\ UNCHANGED <<viewVars, todoVars, authVars, aliasVars, storageVars, authUcVars>>

\* TodoUseCase.toggleTodo: the lookup in the local list, then updateTodo
ucToggleTodo(c, id) ==
    /\ Free(c)
    /\ UcRoom
    /\ IF UcIndex(id) = 0
       THEN /\ Return(c, "TodoUseCase.toggleTodo", [id |-> id], Err(ErrMapTodoNotFound))
            /\ UNCHANGED <<todoUcVars, obsVars>>
            /\ UNCHANGED <<viewVars, todoVars, authVars, aliasVars, storageVars, authUcVars>>
       ELSE ucUpdateTodoBody(c, "TodoUseCase.toggleTodo", id,
                             [completed |-> ~ucTodos[UcIndex(id)].completed])

\* TodoUseCase.deleteTodo up to its await: the body of repository.delete
ucDeleteTodo(c, id) ==
    /\ Free(c)
    /\ UcRoom
    /\ mapTodos' = MapRepoAfterDelete(id)
    /\ Await(c, "ucDeleteTodo_1", "TodoUseCase.deleteTodo", [id |-> id], Null)
    /\ Suspend(c)
    /\ UNCHANGED <<ucTodos, mapNextId, obsVars>>
    /\ UNCHANGED <<viewVars, todoVars, authVars, aliasVars, storageVars, authUcVars>>

\* this.todos.filter(t => t.id !== id)
UcWithout(id) == LET Other(t) == t.id # id IN SelectSeq(ucTodos, Other)

ucDeleteTodo_1(c) ==
    /\ calls[c].pc = "ucDeleteTodo_1"
    /\ Resume(c)
    /\ ucTodos' = UcWithout(calls[c].arg.id)
    /\ notify(UcWithout(calls[c].arg.id))
    /\ Return(c, "TodoUseCase.deleteTodo", calls[c].arg, Ok(Null))
    /\ UNCHANGED <<mapTodos, mapNextId>>
    /\ UNCHANGED <<viewVars, todoVars, authVars, aliasVars, storageVars, authUcVars>>

getCompletedCountValue ==
    LET Completed(t) == t.completed IN Len(SelectSeq(ucTodos, Completed))

getPendingCountValue ==
    LET Pending(t) == ~t.completed IN Len(SelectSeq(ucTodos, Pending))

\* getTodos: [...this.todos]
getTodosValue == ucTodos

ucGetCounts(c) ==
    /\ Free(c)
    /\ Return(c, "TodoUseCase.getCounts", Null,
              Ok([completed |-> getCompletedCountValue, pending |-> getPendingCountValue]))
    /\ UNCHANGED <<todoVars, authVars, extVars>>

ucGetTodos(c) ==
    /\ Free(c)
    /\ Return(c, "TodoUseCase.getTodos", Null, Ok(getTodosValue))
    /\ UNCHANGED <<todoVars, authVars, extVars>>

\* subscribeTodos (the handle it returns is the one of SimpleObservable)
subscribeTodos(o) ==
    /\ subscribe(o)
    /\ UNCHANGED <<viewVars, coreVars, aliasVars, storageVars, todoUcVars, authUcVars>>

(* ------------- AuthUseCase over InMemoryAuthRepository ---------------- *)

NameDemo == <<"d", "e", "m", "o">>

\* the one user of the mock database; createdAt is the time of construction
DemoUser ==
    [id |-> "1", username |-> NameDemo, email |-> "demo@example.com", createdAt |-> 0]

MockUsers == <<DemoUser>>

MockPassword == <<"p", "a", "s", "s", "w", "o", "r", "d">>

MockSessionHours == 24

ErrUcUsernameEmpty == "Username cannot be empty"

ErrMockInvalidCredentials == "Invalid credentials"

UcCredentialInputs ==
    {[username |-> NameDemo, password |-> MockPassword],
     [username |-> NameDemo, password |-> <<"1", "2", "3">>],
     [username |-> NameDemo, password |-> <<"s", "e", "c", "r", "e", "t">>],
     [username |-> <<"x">>, password |-> MockPassword],
     [username |-> <<" ">>, password |-> MockPassword],
     [username |-> <<>>, password |-> MockPassword]}

\* InMemoryAuthRepository.login: the session it stores and returns, or the
\* error it throws
AuthRepoLoginResult(credentials) ==
    LET S == {i \in 1..Len(MockUsers) : MockUsers[i].username = credentials.username}
        i == FindIndex(S)
    IN  IF i = 0 \/ credentials.password # MockPassword
        THEN Err(ErrMockInvalidCredentials)
        ELSE Ok([user |-> MockUsers[i],
                 token |-> <<"mock-token-", now>>,
                 expiresAt |-> now + MockSessionHours])

\* InMemoryAuthRepository.isAuthenticated
AuthRepoIsAuthenticated ==
    IF currentSession = Null THEN FALSE ELSE currentSession.expiresAt > now

\* InMemoryAuthRepository.getCurrentUser: currentSession?.user || null
AuthRepoGetCurrentUser ==
    IF currentSession = Null THEN Null ELSE currentSession.user

\* AuthUseCase.login up to its await: the two business rules, then the body of
\* repository.login
ucLogin(c, credentials) ==
    /\ Free(c)
    /\ UcRoom
    /\ IF Trim(credentials.username) = <<>>
       THEN /\ Return(c, "AuthUseCase.login", credentials, Err(ErrUcUsernameEmpty))
            /\ UNCHANGED currentSession
       ELSE IF Len(credentials.password) < 6
       THEN /\ Return(c, "AuthUseCase.login", credentials, Err(ErrPasswordShort))
            /\ UNCHANGED currentSession
       ELSE LET r == AuthRepoLoginResult(credentials)
            IN  /\ currentSession' = IF r.ok THEN r.value ELSE currentSession
                /\ Await(c, "ucLogin_1", "AuthUseCase.login", credentials, [session |-> r])
    /\ UNCHANGED <<currentUser, obsVars>>
    /\ UNCHANGED <<viewVars, todoVars, authVars, aliasVars, storageVars, todoUcVars>>

ucLogin_1NoNotify(c) ==
    /\ calls[c].pc = "ucLogin_1"
    /\ LET r == calls[c].loc.session
       IN  IF r.ok
           THEN /\ currentUser' = r.value.user
                /\ Return(c, "AuthUseCase.login", calls[c].arg, Ok(r.value))
           ELSE /\ Return(c, "AuthUseCase.login", calls[c].arg, r)
                /\ UNCHANGED currentUser
    /\ UNCHANGED <<currentSession, obsVars>>
    /\ UNCHANGED <<viewVars, todoVars, authVars, aliasVars, storageVars, todoUcVars>>

\* AuthUseCase.login after the await
ucLogin_1(c) ==
    /\ calls[c].pc = "ucLogin_1"
    /\ LET r == calls[c].loc.session
       IN  IF r.ok
           THEN /\ currentUser' = r.value.user
                /\ notify(r.value.user)
                /\ Return(c, "AuthUseCase.login", calls[c].arg, Ok(r.value))
           ELSE /\ Return(c, "AuthUseCase.login", calls[c].arg, r)
                /\ UNCHANGED <<currentUser, obsVars>>
    /\ UNCHANGED currentSession
    /\ UNCHANGED <<viewVars, todoVars, authVars, aliasVars, storageVars, todoUcVars>>

\* AuthUseCase.logout up to its await: the body of repository.logout
ucLogout(c) ==
    /\ Free(c)
    /\ UcRoom
    /\ currentSession' = Null
    /\ Await(c, "ucLogout_1", "AuthUseCase.logout", Null, Null)
    /\ UNCHANGED <<currentUser, obsVars>>
    /\ UNCHANGED <<viewVars, todoVars, authVars, aliasVars, storageVars, todoUcVars>>

ucLogout_1(c) ==
    /\ calls[c].pc = "ucLogout_1"
    /\ currentUser' = Null
    /\ notify(Null)
    /\ Return(c, "AuthUseCase.logout", Null, Ok(Null))
    /\ UNCHANGED currentSession
    /\ UNCHANGED <<viewVars, todoVars, authVars, aliasVars, storageVars, todoUcVars>>

\* AuthUseCase.checkAuth up to its first await: the body of
\* repository.isAuthenticated
checkAuth(c) ==
    /\ Free(c)
    /\ UcRoom
    /\ Await(c, "checkAuth_1", "AuthUseCase.checkAuth", Null,
             [isAuth |-> AuthRepoIsAuthenticated])
    /\ UNCHANGED <<authUcVars, obsVars>>
    /\ UNCHANGED <<viewVars, todoVars, authVars, aliasVars, storageVars, todoUcVars>>

\* checkAuth_1 with an else branch that keeps the current user
checkAuth_1KeepUser(c) ==
    /\ calls[c].pc = "checkAuth_1"
    /\ IF calls[c].loc.isAuth
       THEN /\ Await(c, "checkAuth_2", "AuthUseCase.checkAuth", Null,
                     [user |-> AuthRepoGetCurrentUser])
            /\ UNCHANGED <<currentUser, obsVars>>
       ELSE /\ UNCHANGED currentUser
            /\ notify(currentUser)
            /\ Return(c, "AuthUseCase.checkAuth", Null, Ok(Null))
    /\ UNCHANGED currentSession
    /\ UNCHANGED <<viewVars, todoVars, authVars, aliasVars, storageVars, todoUcVars>>

\* checkAuth after the first await: either the body of
\* repository.getCurrentUser and the second await, or the else branch to the end
checkAuth_1(c) ==
    /\ calls[c].pc = "checkAuth_1"
    /\ IF calls[c].loc.isAuth
       THEN /\ Await(c, "checkAuth_2", "AuthUseCase.checkAuth", Null,
                     [user |-> AuthRepoGetCurrentUser])
            /\ UNCHANGED <<currentUser, obsVars>>
       ELSE /\ currentUser' = Null
            /\ notify(Null)
            /\ Return(c, "AuthUseCase.checkAuth", Null, Ok(Null))
    /\ UNCHANGED currentSession
    /\ UNCHANGED <<viewVars, todoVars, authVars, aliasVars, storageVars, todoUcVars>>

checkAuth_2(c) ==
    /\ calls[c].pc = "checkAuth_2"
    /\ currentUser' = calls[c].loc.user
    /\ notify(calls[c].loc.user)
    /\ Return(c, "AuthUseCase.checkAuth", Null, Ok(Null))
    /\ UNCHANGED currentSession
    /\ UNCHANGED <<viewVars, todoVars, authVars, aliasVars, storageVars, todoUcVars>>

ucGetCurrentUserValue == currentUser

ucIsAuthenticatedValue == currentUser # Null

ucGetCurrentUser(c) ==
    /\ Free(c)
    /\ Return(c, "AuthUseCase.getCurrentUser", Null, Ok(ucGetCurrentUserValue))
    /\ UNCHANGED <<todoVars, authVars, extVars>>

ucIsAuthenticated(c) ==
    /\ Free(c)
    /\ Return(c, "AuthUseCase.isAuthenticated", Null, Ok(ucIsAuthenticatedValue))
    /\ UNCHANGED <<todoVars, authVars, extVars>>

\* subscribeUser and the handle it returns
subscribeUser(o) ==
    /\ subscribe(o)
    /\ UNCHANGED <<viewVars, coreVars, aliasVars, storageVars, todoUcVars, authUcVars>>

unsubscribeUser(o) ==
    /\ unsubscribe(o)
    /\ UNCHANGED <<viewVars, coreVars, aliasVars, storageVars, todoUcVars, authUcVars>>

(* ------------------------------- system ------------------------------- *)

(* ------------------------------- Store -------------------------------- *)

Listeners == {"l1", "l2"}

\* the partial states given to setState, the empty one included
StorePartials ==
    {[count |-> 5], [count |-> 10], [name |-> "test"], [count |-> 5, name |-> "x"], <<>>}

\* the states given to reset, the default {} included
StoreResets == {<<>>, [count |-> 0]}

\* Store.getState
getStateValue == storeState

\* Store.notifyListeners: every listener of the Set is called with this.state,
\* here the state s the caller has just assigned
notifyListeners(s) ==
    heard' = [l \in Listeners |-> IF l \in listeners THEN Called(heard[l], s) ELSE heard[l]]

\* mutant: the new state is the partial alone
setStateNoMerge(c, newState) ==
    /\ Free(c)
    /\ \A l \in listeners : heard[l].count < MaxNotifications
    /\ storeState' = newState
    /\ notifyListeners(newState)
    /\ Return(c, "Store.setState", newState, Ok(Null))
    /\ UNCHANGED listeners
    /\ UNCHANGED <<todoVars, authVars, adapterVars, pageVars, snapVars>>

\* Store.setState
setState(c, newState) ==
    /\ Free(c)
    /\ \A l \in listeners : heard[l].count < MaxNotifications
    /\ storeState' = Spread(storeState, newState)
    /\ notifyListeners(Spread(storeState, newState))
    /\ Return(c, "Store.setState", newState, Ok(Null))
    /\ UNCHANGED listeners
    /\ UNCHANGED <<todoVars, authVars, adapterVars, pageVars, snapVars>>

\* Store.reset
reset(c, initialState) ==
    /\ Free(c)
    /\ \A l \in listeners : heard[l].count < MaxNotifications
    /\ storeState' = initialState
    /\ notifyListeners(initialState)
    /\ Return(c, "Store.reset", initialState, Ok(Null))
    /\ UNCHANGED listeners
    /\ UNCHANGED <<todoVars, authVars, adapterVars, pageVars, snapVars>>

\* Store.subscribe
storeSubscribe(l) ==
    /\ listeners' = listeners \cup {l}
    /\ UNCHANGED <<storeState, heard>>
    /\ UNCHANGED <<coreVars, adapterVars, pageVars, snapVars>>

\* the function Store.subscribe returned, called while the listener is in the
\* Set (it changes nothing otherwise)
storeUnsubscribe(l) ==
    /\ l \in listeners
    /\ listeners' = listeners \ {l}
    /\ UNCHANGED <<storeState, heard>>
    /\ UNCHANGED <<coreVars, adapterVars, pageVars, snapVars>>

(* ------------------ AuthProvider and useAuth (React) ------------------ *)

PageRegisterInputs ==
    {[email |-> EmailA, username |-> NameAbc, password |-> "secret"],
     [email |-> EmailB, username |-> NameXyz, password |-> "short"]}

PageLoginInputs ==
    {[email |-> EmailA, password |-> "secret"], [email |-> EmailA, password |-> "hunter2"]}

\* the mount effect of the AuthProvider has not run / waits for validateSession
\* / waits for its finally handler / is over
EffectPending == [pc |-> "pending", validatedUser |-> Null]

EffectThen(user) == [pc |-> "then", validatedUser |-> user]

EffectFinally == [pc |-> "finally", validatedUser |-> Null]

EffectOver == [pc |-> "over", validatedUser |-> Null]

\* isAuthenticated of the context value: !!user && !!token
ctxIsAuthenticated == ctxUser # Null /\ ctxToken # NullToken

\* window.location.reload(): the script is run again, so the module-level
\* userRepository, authUseCases (with its sessions Map) and todoRepository are
\* built anew, every pending call is gone, and the AuthProvider mounts with
\* its initial state; localStorage and the clock are all that is kept
\* (crypto.randomUUID values stay fresh, so the counters go on)
Reload(cause) ==
    /\ users' = <<>>
    /\ sessions' = <<>>
    /\ todos' = <<>>
    /\ calls' = [c \in Slots |-> Idle]
    /\ ctxUser' = Null
    /\ ctxToken' = NullToken
    /\ isLoading' = TRUE
    /\ effect' = EffectPending
    /\ loadedBy' = cause
    /\ UNCHANGED <<nextUserId, nextToken, nextTodoId, now>>
    /\ UNCHANGED <<adapterVars, storeVars, snapVars>>

\* the user reloads the page
pageReload ==
    /\ Reload("user")
    /\ UNCHANGED authToken

\* the call of the use case made by useAuth.login / register in slot c has
\* settled and its continuation in the hook has not run yet
HookAwaits(c) == calls[c].pc = "done" /\ calls[c].op \in {"login", "register"}

\* the login form is shown: the provider has finished loading and nobody is
\* authenticated
FormShown == ~isLoading /\ ~ctxIsAuthenticated

\* useAuth.login up to its await: authUseCases.login(data)
useAuthLogin(c, data) ==
    /\ FormShown
    /\ ~HookAwaits(c)
    /\ login(c, data)

\* useAuth.register up to its await: authUseCases.register(data)
useAuthRegister(c, data) ==
    /\ FormShown
    /\ ~HookAwaits(c)
    /\ register(c, data)

\* useAuth.login / register after the await: the token is saved and the page
\* reloaded, or the error is kept and thrown again
useAuthSubmit_1(c) ==
    /\ HookAwaits(c)
    /\ IF calls[c].res.ok
       THEN /\ authToken' = calls[c].res.value.token
            /\ Reload(calls[c].op)
       ELSE /\ Return(c, "useAuth." \o calls[c].op, calls[c].arg, calls[c].res)
            /\ UNCHANGED <<pageVars, todoVars, authVars, adapterVars, storeVars, snapVars>>

\* the mount effect of the AuthProvider: the saved token is read and, when
\* there is one, the body of authUseCases.validateSession runs
authProviderEffect ==
    /\ effect = EffectPending
    /\ IF authToken # NullToken
       THEN /\ sessions' = validateSessionTable(authToken)
            /\ effect' = EffectThen(validateSessionValue(authToken))
            /\ UNCHANGED isLoading
       ELSE /\ isLoading' = FALSE
            /\ effect' = EffectOver
            /\ UNCHANGED sessions
    /\ UNCHANGED <<authToken, ctxUser, ctxToken, loadedBy>>
    /\ UNCHANGED <<todoVars, users, nextUserId, nextToken, now, calls>>
    /\ UNCHANGED <<adapterVars, storeVars, snapVars>>

\* the then handler of the effect
authProviderEffect_1 ==
    /\ effect.pc = "then"
    /\ IF effect.validatedUser # Null
       THEN /\ ctxUser' = effect.validatedUser
            /\ ctxToken' = authToken
            /\ UNCHANGED authToken
       ELSE /\ authToken' = NullToken
            /\ UNCHANGED <<ctxUser, ctxToken>>
    /\ effect' = EffectFinally
    /\ UNCHANGED <<isLoading, loadedBy>>
    /\ UNCHANGED <<coreVars, adapterVars, storeVars, snapVars>>

\* the finally handler of the effect
authProviderEffect_2 ==
    /\ effect.pc = "finally"
    /\ isLoading' = FALSE
    /\ effect' = EffectOver
    /\ UNCHANGED <<authToken, ctxUser, ctxToken, loadedBy>>
    /\ UNCHANGED <<coreVars, adapterVars, storeVars, snapVars>>

(* ---------------- array identity in TodoUseCase.todos ----------------- *)

\* One caller that awaits every call, so that each method runs from its
\* call to its return with nothing in between.  this.todos is lists[todosRef];
\* ucTodos is kept equal to it.

SnapCreateInputs == {[title |-> <<"a", "b", "c">>, description |-> "d"]}

SnapUpdateInputs == {[completed |-> TRUE], [title |-> <<"x", "y", "z">>]}

\* this.todosObservable.notify(this.todos): every observer is handed the array
\* this.todos refers to after the step, here array r with contents data
NotifyRef(r, data) ==
    /\ \A o \in observers : received[o].count < MaxNotifications
    /\ notify(data)
    /\ deliveredRefs' = IF observers = {} THEN deliveredRefs ELSE deliveredRefs \cup {r}
    /\ lastRef' = IF observers = {} THEN lastRef ELSE r

\* this.todos = <a new array with contents data>; notify(this.todos)
AssignNewList(data) ==
    /\ Len(lists) < MaxLists
    /\ lists' = Append(lists, data)
    /\ todosRef' = Len(lists) + 1
    /\ ucTodos' = data
    /\ NotifyRef(Len(lists) + 1, data)

\* the array this.todos refers to is changed in place to data; notify(this.todos)
ChangeInPlace(data) ==
    /\ lists' = [lists EXCEPT ![todosRef] = data]
    /\ ucTodos' = data
    /\ NotifyRef(todosRef, data)
    /\ UNCHANGED todosRef

\* loadTodos: this.todos = await this.repository.getAll()
snapLoadTodos ==
    /\ AssignNewList(MapRepoGetAll)
    /\ UNCHANGED <<mapTodos, mapNextId, microtasks>>
    /\ UNCHANGED <<coreVars, aliasVars, storageVars, authUcVars, storeVars, pageVars>>

\* createTodo with a title that passes the rules: this.todos.push(todo)
snapCreateTodo(input) ==
    /\ UcTitleError(input.title) = ""
    /\ mapNextId <= MaxTodos
    /\ mapTodos' = Append(mapTodos, MapRepoNewTodo(input))
    /\ mapNextId' = mapNextId + 1
    /\ ChangeInPlace(Append(lists[todosRef], MapRepoNewTodo(input)))
    /\ UNCHANGED microtasks
    /\ UNCHANGED <<coreVars, aliasVars, storageVars, authUcVars, storeVars, pageVars>>

\* the position of the todo with this id in this.todos, 0 when absent
SnapIndex(id) ==
    FindIndex({i \in 1..Len(lists[todosRef]) : lists[todosRef][i].id = id})

\* updateTodo of a todo the repository holds, with an input that passes the
\* rules: this.todos[index] = todo when the local list holds it
snapUpdateTodoBody(id, input) ==
    /\ MapIndex(id) # 0
    /\ mapTodos' = MapRepoAfterUpdate(id, input)
    /\ IF SnapIndex(id) # 0
       THEN ChangeInPlace([lists[todosRef] EXCEPT
                               ![SnapIndex(id)] = MapRepoUpdateResult(id, input).value])
       ELSE UNCHANGED <<snapVars, ucTodos, obsVars>>
    /\ UNCHANGED <<mapNextId, microtasks>>
    /\ UNCHANGED <<coreVars, aliasVars, storageVars, authUcVars, storeVars, pageVars>>

snapUpdateTodo(id, input) ==
    /\ ~("title" \in DOMAIN input /\ UcTitleError(input.title) # "")
    /\ snapUpdateTodoBody(id, input)

\* toggleTodo of a todo the local list holds
snapToggleTodo(id) ==
    /\ SnapIndex(id) # 0
    /\ snapUpdateTodoBody(id, [completed |-> ~lists[todosRef][SnapIndex(id)].completed])

\* deleteTodo: this.todos = this.todos.filter(t => t.id !== id)
snapDeleteTodo(id) ==
    /\ mapTodos' = MapRepoAfterDelete(id)
    /\ AssignNewList(LET Other(t) == t.id # id IN SelectSeq(lists[todosRef], Other))
    /\ UNCHANGED <<mapNextId, microtasks>>
    /\ UNCHANGED <<coreVars, aliasVars, storageVars, authUcVars, storeVars, pageVars>>

\* subscribeTodos
snapSubscribeTodos(o) ==
    /\ subscribe(o)
    /\ UNCHANGED <<coreVars, aliasVars, storageVars, todoUcVars, authUcVars, viewVars>>

Init ==
    /\ todos = <<>>
    /\ nextTodoId = 1
    /\ users = <<>>
    /\ nextUserId = 1
    /\ sessions = <<>>
    /\ nextToken = 1
    /\ now = 0
    /\ calls = [c \in Slots |-> Idle]
    /\ heap = <<>>
    /\ memTodos = <<>>
    /\ held = NothingHeld
    /\ storage = <<>>
    /\ lsNextId = [r \in Instances |-> NotConstructed]
    /\ observers = {}
    /\ handles = {}
    /\ received = [o \in Observers |-> NeverCalled]
    /\ ucTodos = <<>>
    /\ mapTodos = <<>>
    /\ mapNextId = 1
    /\ microtasks = <<>>
    /\ currentUser = Null
    /\ currentSession = Null
    /\ storeState = <<>>
    /\ listeners = {}
    /\ heard = [l \in Listeners |-> NeverCalled]
    /\ authToken = NullToken
    /\ ctxUser = Null
    /\ ctxToken = NullToken
    /\ isLoading = TRUE
    /\ effect = EffectPending
    /\ loadedBy = "open"
    /\ lists = <<<<>>>>
    /\ todosRef = 1
    /\ deliveredRefs = {}
    /\ lastRef = 0

NextTodo ==
    \E c \in SeqSlots :
        \/ \E u \in UserIdInputs : getAllTodos(c, u)
        \/ \E id \in TodoIdInputs, u \in UserIdInputs : getTodoById(c, id, u)
        \/ \E t \in TitleInputs, u \in UserIdInputs : createTodo(c, [title |-> t], u)
        \/ \E id \in TodoIdInputs, u \in UserIdInputs :
               \E d \in UpdateTodoInputs(id) : updateTodo(c, d, u)
        \/ updateTodo_1(c)
        \/ \E id \in TodoIdInputs, u \in UserIdInputs : toggleTodo(c, id, u)
        \/ toggleTodo_1(c)
        \/ \E id \in TodoIdInputs, u \in UserIdInputs : deleteTodo(c, id, u)
        \/ deleteTodo_1(c)
        \/ \E u \in UserIdInputs : getActiveTodosCount(c, u)
        \/ \E u \in UserIdInputs : getCompletedTodosCount(c, u)

SpecTodo == Init /\ [][NextTodo]_vars

AuthStep(c) ==
    \/ \E d \in RegisterInputs : register(c, d)
    \/ register_1(c)
    \/ register_2(c)
    \/ register_3(c)
    \/ \E d \in LoginInputs : login(c, d)
    \/ login_1(c)
    \/ \E t \in TokenInputs : logout(c, t)
    \/ \E t \in TokenInputs : validateSession(c, t)
    \/ \E t \in TokenInputs : getCurrentUser(c, t)
    \/ \E t \in TokenInputs, d \in ChangePasswordInputs : changePassword(c, t, d)
    \/ changePassword_1(c)
    \/ changePassword_2(c)
    \/ \E t \in TokenInputs : refreshSession(c, t)
    \/ refreshSession_1(c)
    \/ \E t \in TokenInputs \cup {NullToken} : isAuthenticated(c, t)

NextAuth == Tick \/ \E c \in SeqSlots : AuthStep(c)

SpecAuth == Init /\ [][NextAuth]_vars

\* two overlapping callers of the session operations
ConcRegisterInputs ==
    {[email |-> EmailA, username |-> NameAbc, password |-> "secret"],
     [email |-> EmailAUpper, username |-> NameXyz, password |-> "secret"]}

ConcStep(c) ==
    \/ \E d \in ConcRegisterInputs : register(c, d)
    \/ register_1(c)
    \/ register_2(c)
    \/ register_3(c)
    \/ \E t \in TokenInputs : logout(c, t)
    \/ \E t \in TokenInputs : refreshSession(c, t)
    \/ refreshSession_1(c)

NextAuthConc == \E c \in Slots : ConcStep(c)

SpecAuthConc == Init /\ [][NextAuthConc]_vars

\* registration next to direct calls of the user repository
RepoStep(c) ==
    \/ \E d \in RegisterInputs : register(c, d)
    \/ register_1(c)
    \/ register_2(c)
    \/ register_3(c)
    \/ \E d \in RegisterInputs : userRepoCreate(c, d)
    \/ \E d \in UpdateUserInputs : userRepoUpdate(c, d)

NextUserRepo == \E c \in SeqSlots : RepoStep(c)

SpecUserRepo == Init /\ [][NextUserRepo]_vars

\* every outcome a request of any method can have
AllFetchOutcomes ==
    FetchOutcomes("ApiTodoRepository.getAll") \cup FetchOutcomes("ApiTodoRepository.getById")

\* calls of the two remote repositories against a server that can answer any
\* request with a body, with 404 or 500, or not at all
ApiStep(c) ==
    \/ apiTodoGetAll(c)
    \/ \E u \in ApiUserIdInputs : apiTodoGetAllByUserId(c, u)
    \/ \E id \in ApiTodoIdInputs : apiTodoGetById(c, id)
    \/ apiTodoCreate(c, [title |-> <<"a">>], "u1")
    \/ \E id \in ApiTodoIdInputs : apiTodoUpdate(c, [id |-> id, completed |-> TRUE])
    \/ \E id \in ApiTodoIdInputs : apiTodoDelete(c, id)
    \/ apiTodoGetAll_1(c)
    \/ apiTodoGetById_1(c)
    \/ apiTodoWrite_1(c)
    \/ apiTodoDelete_1(c)
    \/ \E id \in ApiUserIdInputs : apiUserGetById(c, id)
    \/ \E e \in ApiEmailInputs : apiUserGetByEmail(c, e)
    \/ \E e \in ApiEmailInputs : apiUserEmailExists(c, e)
    \/ \E n \in ApiUsernameInputs : apiUserUsernameExists(c, n)
    \/ apiUserCreate(c, [email |-> EmailA, username |-> NameAbc, password |-> "secret"])
    \/ \E id \in ApiUserIdInputs : apiUserUpdate(c, id, [username |-> NameXyz])
    \/ \E id \in ApiUserIdInputs : apiUserDelete(c, id)
    \/ apiUserLookup_1(c)
    \/ apiUserExists_1(c)
    \/ apiUserWrite_1(c)
    \/ apiUserDelete_1(c)
    \/ \E o \in AllFetchOutcomes : fetchSettles(c, o)

NextApi == \E c \in SeqSlots : ApiStep(c)

NextObs ==
    \/ \E o \in Observers : obsSubscribe(o)
    \/ \E o \in Observers : obsUnsubscribe(o)
    \/ \E data \in DataInputs : obsNotify(data)

SpecApi == Init /\ [][NextApi]_vars

SpecObs == Init /\ [][NextObs]_vars

NextAlias ==
    \/ \E title \in AliasTitleInputs, userId \in AliasUserInputs : aliasCreate(title, userId)
    \/ aliasGetAll
    \/ \E userId \in AliasUserInputs : aliasGetAllByUserId(userId)
    \/ \E id \in AliasIdInputs : aliasGetById(id)
    \/ \E data \in AliasUpdateInputs : aliasUpdate(data)
    \/ \E id \in AliasIdInputs : aliasDelete(id)
    \/ \E i \in 1..MaxObjects : callerSetsCompleted(i)
    \/ \E i \in 1..MaxObjects : callerSetsTitle(i)
    \/ callerPops

SpecAlias == Init /\ [][NextAlias]_vars

NextStorage ==
    \/ Tick
    \/ \E id \in SeedIdInputs : lsSeed(id)
    \/ \E r \in Instances : lsConstruct(r)
    \/ \E r \in Instances, input \in LsCreateInputs : lsCreate(r, input)
    \/ \E r \in Instances, id \in LsIdInputs, input \in LsUpdateInputs :
          lsUpdate(r, id, input)
    \/ \E r \in Instances, id \in LsIdInputs : lsDelete(r, id)

SpecStorage == Init /\ [][NextStorage]_vars

UcObservers == {"o1", "o2"}

AuthUcStep(c) ==
    \/ \E d \in UcCredentialInputs : ucLogin(c, d)
    \/ ucLogin_1(c)
    \/ ucLogout(c)
    \/ ucLogout_1(c)
    \/ checkAuth(c)
    \/ checkAuth_1(c)
    \/ checkAuth_2(c)
    \/ ucGetCurrentUser(c)
    \/ ucIsAuthenticated(c)

NextAuthUc ==
    \/ Tick
    \/ \E o \in UcObservers : subscribeUser(o)
    \/ \E o \in UcObservers : unsubscribeUser(o)
    \/ \E c \in Slots : AuthUcStep(c)

SpecAuthUc == Init /\ [][NextAuthUc]_vars

TodoUcStep(c) ==
    \/ loadTodos(c)
    \/ loadTodos_1(c)
    \/ \E input \in UcCreateInputs : ucCreateTodo(c, input)
    \/ ucCreateTodo_1(c)
    \/ \E id \in UcIdInputs, input \in UcUpdateInputs : ucUpdateTodo(c, id, input)
    \/ ucUpdateTodo_1(c)
    \/ \E id \in UcIdInputs : ucToggleTodo(c, id)
    \/ \E id \in UcIdInputs : ucDeleteTodo(c, id)
    \/ ucDeleteTodo_1(c)
    \/ ucGetCounts(c)
    \/ ucGetTodos(c)

NextTodoUc ==
    \/ \E o \in UcObservers : subscribeTodos(o)
    \/ mapRepoCreate([title |-> <<"a", "b", "c">>, description |-> "d"])
    \/ \E id \in UcIdInputs : mapRepoDelete(id)
    \/ \E c \in SeqSlots : TodoUcStep(c)

SpecTodoUc == Init /\ [][NextTodoUc]_vars

NextStore ==
    \/ \E l \in Listeners : storeSubscribe(l)
    \/ \E l \in Listeners : storeUnsubscribe(l)
    \/ \E c \in SeqSlots :
           \/ \E newState \in StorePartials : setState(c, newState)
           \/ \E initialState \in StoreResets : reset(c, initialState)

SpecStore == Init /\ [][NextStore]_vars

\* two overlapping callers of toggleTodo and deleteTodo on the todos of one user
ToggleConcStep(c) ==
    \/ createTodo(c, [title |-> <<"a">>], "u1")
    \/ \E id \in TodoIdInputs : toggleTodo(c, id, "u1")
    \/ toggleTodo_1(c)
    \/ \E id \in TodoIdInputs : deleteTodo(c, id, "u1")
    \/ deleteTodo_1(c)

NextToggleConc == \E c \in Slots : ToggleConcStep(c)

SpecToggleConc == Init /\ [][NextToggleConc]_vars

\* two overlapping callers of one TodoUseCase, which is the only holder of
\* its repository
TodoUcConcStep(c) ==
    \/ loadTodos(c)
    \/ loadTodos_1(c)
    \/ \E input \in UcCreateInputs : ucCreateTodo(c, input)
    \/ ucCreateTodo_1(c)
    \/ \E id \in UcIdInputs, input \in UcUpdateInputs : ucUpdateTodo(c, id, input)
    \/ ucUpdateTodo_1(c)
    \/ \E id \in UcIdInputs : ucToggleTodo(c, id)
    \/ \E id \in UcIdInputs : ucDeleteTodo(c, id)
    \/ ucDeleteTodo_1(c)

NextTodoUcConc == \E c \in Slots : TodoUcConcStep(c)

SpecTodoUcConc == Init /\ [][NextTodoUcConc]_vars

NextSnap ==
    \/ \E o \in UcObservers : snapSubscribeTodos(o)
    \/ snapLoadTodos
    \/ \E input \in SnapCreateInputs : snapCreateTodo(input)
    \/ \E id \in UcIdInputs, input \in SnapUpdateInputs : snapUpdateTodo(id, input)
    \/ \E id \in UcIdInputs : snapToggleTodo(id)
    \/ \E id \in UcIdInputs : snapDeleteTodo(id)

SpecSnap == Init /\ [][NextSnap]_vars

PageStep(c) ==
    \/ \E data \in PageRegisterInputs : useAuthRegister(c, data)
    \/ register_1(c)
    \/ register_2(c)
    \/ register_3(c)
    \/ \E data \in PageLoginInputs : useAuthLogin(c, data)
    \/ login_1(c)
    \/ useAuthSubmit_1(c)

NextPage ==
    \/ authProviderEffect
    \/ authProviderEffect_1
    \/ authProviderEffect_2
    \/ pageReload
    \/ \E c \in Slots : PageStep(c)

SpecPage == Init /\ [][NextPage]_vars

Next == NextTodo \/ NextAuth \/ NextAuthConc \/ NextUserRepo \/ NextApi \/ NextObs
        \/ NextAuthUc \/ NextTodoUc \/ NextAlias \/ NextStorage \/ NextStore
        \/ NextPage \/ NextToggleConc \/ NextTodoUcConc
        \/ NextSnap

Spec == Init /\ [][Next]_vars

(* ------------------------------ properties ---------------------------- *)

\* the step completes the call in slot c
Completes(c) == calls'[c] # calls[c] /\ calls'[c].pc = "done"

\* slot c holds the result of a finished call of op
Done(c, op) == calls[c].pc = "done" /\ calls[c].op = op

\* the todos of the list ts that are not owned by u, in store order
ForeignTodos(ts, u) == LET Foreign(t) == t.userId # u IN SelectSeq(ts, Foreign)

\* C1: deleteTodo(t.id, u2) on a stored todo t whose owner is not u2 fails with
\* Unauthorized and leaves the store, t included, exactly as it was
C1_DeleteByNonOwnerRejected ==
    [][\A c \in Slots :
          (/\ Completes(c)
           /\ calls'[c].op = "deleteTodo"
           /\ calls'[c].arg.userId # ""
           /\ \E i \in 1..Len(todos) :
                  todos[i].id = calls'[c].arg.id /\ todos[i].userId # calls'[c].arg.userId)
          => (calls'[c].res = Err(ErrUnauthorizedDelete) /\ todos' = todos)]_vars

C1_Witness ==
    \E c \in Slots :
        /\ Done(c, "deleteTodo")
        /\ calls[c].res = Err(ErrUnauthorizedDelete)
        /\ \E i \in 1..Len(todos) :
               todos[i].id = calls[c].arg.id /\ todos[i].userId # calls[c].arg.userId

\* what a finished call made with owner id u handed back concerns u's todos only
ReturnsOnlyOwn(r, u) ==
    CASE r.op = "getAllTodos" -> \A i \in 1..Len(r.res.value) : r.res.value[i].userId = u
      [] r.op = "getTodoById" -> r.res.ok => (r.res.value = Null \/ r.res.value.userId = u)
      [] r.op \in {"createTodo", "updateTodo", "toggleTodo"} -> r.res.ok => r.res.value.userId = u
      [] r.op = "getActiveTodosCount" ->
            r.res.value = Cardinality({i \in 1..Len(todos) :
                                          todos[i].userId = u /\ ~todos[i].completed})
      [] r.op = "getCompletedTodosCount" ->
            r.res.value = Cardinality({i \in 1..Len(todos) :
                                          todos[i].userId = u /\ todos[i].completed})
      [] OTHER -> TRUE

\* C2: no step of a TodoUseCases call made with user id u modifies or removes a
\* todo of another owner, and what the call returns or counts is u's todos only
C2_OnlyOwnTodos ==
    [][\A c \in Slots :
          (calls'[c] # calls[c] /\ calls'[c].arg.userId # "")
          => /\ ForeignTodos(todos', calls'[c].arg.userId) = ForeignTodos(todos, calls'[c].arg.userId)
             /\ calls'[c].pc = "done" => ReturnsOnlyOwn(calls'[c], calls'[c].arg.userId)]_vars

C2_Witness ==
    \E c \in Slots :
        /\ Done(c, "updateTodo")
        /\ calls[c].arg.userId # ""
        /\ calls[c].res.ok
        /\ "title" \in DOMAIN calls[c].arg.data
        /\ ForeignTodos(todos, calls[c].arg.userId) # <<>>

\* the step invokes op in slot c
Invokes(c, op) == Free(c) /\ calls'[c] # calls[c] /\ calls'[c].op = op

SameFolded(a, b) == ToLowerCase(a) = ToLowerCase(b)

\* C3: no two stored users share an email or a username, compared
\* case-insensitively
C3_UsersUnique ==
    \A i, j \in 1..Len(users) :
        i # j => /\ ~SameFolded(users[i].email, users[j].email)
                 /\ ~SameFolded(users[i].username, users[j].username)

\* the email is that of a stored user, in any letter case
EmailRegistered(email) == \E i \in 1..Len(users) : SameFolded(users[i].email, email)

\* the RegisterDTO passes the three input checks of register
ValidRegisterData(d) ==
    /\ Includes(d.email, "@")
    /\ Len(d.username) >= 3
    /\ Len(d.password) >= 6

\* C4 as stated: register with an email that is already registered, in any
\* letter case, fails with "Email already registered" whatever the other fields
C4_DuplicateEmailAlwaysReported ==
    [][\A c \in Slots :
          /\ (Invokes(c, "register") /\ EmailRegistered(calls'[c].arg.email)
                /\ calls'[c].pc = "done")
             => calls'[c].res = Err(ErrEmailRegistered)
          /\ (calls[c].pc = "register_1" /\ calls[c].loc.emailExists /\ calls'[c] # calls[c])
             => calls'[c].res = Err(ErrEmailRegistered)]_vars

\* C4 amended: register with an email that is already registered, in any letter
\* case, always fails and creates neither a user nor a session; the error is
\* "Email already registered" when the data passes the input checks, and the
\* error of the first failing input check otherwise
C4_DuplicateEmailRejected ==
    [][\A c \in Slots :
          /\ (Invokes(c, "register") /\ EmailRegistered(calls'[c].arg.email))
             => /\ users' = users /\ sessions' = sessions
                /\ IF ValidRegisterData(calls'[c].arg)
                   THEN calls'[c].pc = "register_1" /\ calls'[c].loc.emailExists
                   ELSE /\ calls'[c].pc = "done"
                        /\ calls'[c].res \in {Err(ErrInvalidEmail), Err(ErrUsernameShort),
                                              Err(ErrPasswordShort)}
          /\ (calls[c].pc = "register_1" /\ calls[c].loc.emailExists /\ calls'[c] # calls[c])
             => /\ calls'[c].pc = "done"
                /\ calls'[c].res = Err(ErrEmailRegistered)
                /\ users' = users /\ sessions' = sessions]_vars

C4_Witness ==
    \E c \in Slots :
        /\ Done(c, "register")
        /\ calls[c].res = Err(ErrEmailRegistered)
        /\ \E i \in 1..Len(users) :
               users[i].email # calls[c].arg.email /\ SameFolded(users[i].email, calls[c].arg.email)
        /\ Len(users) = 1

IsSessionOp(op) == op \in {"validateSession", "getCurrentUser", "isAuthenticated"}

\* the session of token t is tracked and the clock is past its expiresAt
Expired(t) == MapHas(sessions, t) /\ sessions[t].expiresAt < now

\* C5: for a token whose session is past its expiresAt, validateSession and
\* getCurrentUser return null and isAuthenticated returns false
C5_ExpiredSessionRejected ==
    [][\A c \in Slots :
          (Completes(c) /\ IsSessionOp(calls'[c].op) /\ Expired(calls'[c].arg.token))
          => calls'[c].res = Ok(IF calls'[c].op = "isAuthenticated" THEN FALSE ELSE Null)]_vars

C5_Witness ==
    \E c \in Slots :
        /\ Done(c, "isAuthenticated")
        /\ Expired(calls[c].arg.token)
        /\ calls[c].res = Ok(FALSE)

\* C6: at every time isAuthenticated(token) is true exactly when
\* validateSession(token) would return a user, i.e. exactly when the token is
\* tracked and now < expiresAt
C6_IsAuthenticatedMirrorsValidate ==
    \A t \in TokenInputs :
        /\ isAuthenticatedValue(t) <=> (validateSessionValue(t) # Null)
        /\ isAuthenticatedValue(t) <=> (MapHas(sessions, t) /\ now < sessions[t].expiresAt)

\* C7: after a changePassword that passed all its checks the stored credential
\* of the user is the new password (what login compares against)
C7_ChangePasswordUpdatesCredential ==
    \A c \in Slots :
        (Done(c, "changePassword") /\ calls[c].res.ok)
        => \A i \in 1..Len(users) :
               users[i].id = calls[c].arg.data.userId
               => users[i].passwordHash = calls[c].arg.data.newPassword

\* C8: refreshSession fails with "Invalid or expired session" when
\* validateSession returned null for the token at the call; otherwise it returns
\* a session of the same user under a token never issued before, after which the
\* old token is rejected and the new one is accepted, expiring 24 hours later
C8_RefreshSession ==
    [][\A c \in Slots :
          /\ Invokes(c, "refreshSession")
             => /\ calls'[c].pc = "refreshSession_1"
                /\ calls'[c].loc.user = validateSessionValue(calls'[c].arg.token)
          /\ (calls[c].pc = "refreshSession_1" /\ calls'[c] # calls[c])
             => /\ calls'[c].pc = "done"
                /\ IF calls[c].loc.user = Null
                   THEN /\ calls'[c].res = Err(ErrInvalidSession)
                        /\ sessions' = sessions
                   ELSE LET old == calls[c].arg.token
                            new == calls'[c].res.value
                        IN  /\ calls'[c].res.ok
                            /\ new.user = calls[c].loc.user
                            /\ new.token \notin TokenInputs
                            /\ new.expiresAt = now + SessionHours
                            /\ ~MapHas(sessions', old)
                            /\ MapHas(sessions', new.token)
                            /\ sessions'[new.token] = new
                            /\ validateSessionValue(old)' = Null
                            /\ ~isAuthenticatedValue(old)'
                            /\ new.token = nextToken' - 1
                            /\ (validateSessionValue(nextToken - 1) = calls[c].res.value.user)'
                            /\ isAuthenticatedValue(nextToken - 1)']_vars

C8_Witness ==
    \E c \in Slots :
        /\ Done(c, "refreshSession")
        /\ calls[c].res.ok
        /\ ~MapHas(sessions, calls[c].arg.token)
        /\ MapHas(sessions, calls[c].res.value.token)
        /\ now > 0

\* C9: refreshSession replaces the session atomically: a refresh succeeds only
\* for a token whose session is still tracked when it is replaced, so a token
\* that was logged out or already refreshed yields no (further) successor
C9_RefreshAtomic ==
    [][\A c \in Slots :
          (calls[c].pc = "refreshSession_1" /\ calls'[c] # calls[c] /\ calls'[c].res.ok)
          => MapHas(sessions, calls[c].arg.token)]_vars

\* validateSession or isAuthenticated accepts token t
Accepted(t) == validateSessionValue(t) # Null \/ isAuthenticatedValue(t)

\* the session of token t, issued earlier, was removed or is past its expiresAt
Terminal(t) == ~MapHas(sessions, t) \/ sessions[t].expiresAt < now

\* C10: once the session of an issued token has been removed or has passed its
\* expiresAt, no step makes validateSession or isAuthenticated accept it again
C10_TerminalStates ==
    [][\A t \in 1..(nextToken - 1) : Terminal(t) => (~Accepted(t))']_vars

C10_Witness ==
    \E c \in Slots :
        /\ Done(c, "login")
        /\ calls[c].res.ok
        /\ \E t \in 1..(nextToken - 1) : ~MapHas(sessions, t)
        /\ \E t \in 1..(nextToken - 1) : MapHas(sessions, t) /\ sessions[t].expiresAt < now

\* C11: logout(token) always resolves, for a tracked and for an untracked
\* token; it removes the session of that token and no other, so every other
\* session, of the same user too, is kept and stays accepted; a second logout
\* of the same token would leave the session table as the first one left it
C11_LogoutRemovesOnlyItsSession ==
    [][\A c \in Slots :
          Invokes(c, "logout")
          => /\ calls'[c].pc = "done"
             /\ calls'[c].res = Ok(Null)
             /\ ~MapHas(sessions', calls'[c].arg.token)
             /\ DOMAIN sessions' = (DOMAIN sessions) \ {calls'[c].arg.token}
             /\ \A t \in (DOMAIN sessions) \ {calls'[c].arg.token} :
                    /\ sessions'[t] = sessions[t]
                    /\ Accepted(t) => Accepted(t)'
             /\ (MapDelete(sessions, calls[c].arg.token) = sessions)'
             /\ users' = users /\ todos' = todos]_vars

\* a logout has removed one of the two sessions of the only user
C11_Witness ==
    \E c \in Slots :
        /\ Done(c, "logout")
        /\ calls[c].res = Ok(Null)
        /\ calls[c].arg.token \in 1..(nextToken - 1)
        /\ Len(users) = 1
        /\ nextToken = 3
        /\ \E t \in DOMAIN sessions : t # calls[c].arg.token /\ Accepted(t)

\* a stored user has this email, in any letter case, and this password
CredentialsMatch(d) ==
    \E i \in 1..Len(users) :
        SameFolded(users[i].email, d.email) /\ users[i].passwordHash = d.password

\* C12: a login with non-empty email and password that match no stored user,
\* because the email is unknown or because the password is wrong, ends the same
\* way in both cases: the error "Invalid email or password", no session
\* created, nothing else changed
C12_LoginFailuresIndistinguishable ==
    [][\A c \in Slots :
          /\ (Invokes(c, "login") /\ calls'[c].arg.email # <<>> /\ calls'[c].arg.password # "")
             => /\ calls'[c].pc = "login_1"
                /\ UNCHANGED <<todoVars, authVars>>
          /\ (calls[c].pc = "login_1" /\ calls'[c] # calls[c] /\ ~CredentialsMatch(calls[c].arg))
             => /\ calls'[c] = [pc |-> "done", op |-> "login", arg |-> calls[c].arg,
                                res |-> Err(ErrInvalidCredentials)]
                /\ UNCHANGED <<todoVars, authVars>>]_vars

\* a login with a registered email and a wrong password was rejected
C12_Witness ==
    \E c \in Slots :
        /\ Done(c, "login")
        /\ calls[c].res = Err(ErrInvalidCredentials)
        /\ EmailRegistered(calls[c].arg.email)
        /\ ~CredentialsMatch(calls[c].arg)

\* a login with an email that matches no user was rejected
C12_WitnessUnknownEmail ==
    \E c \in Slots :
        /\ Done(c, "login")
        /\ calls[c].res = Err(ErrInvalidCredentials)
        /\ ~EmailRegistered(calls[c].arg.email)
        /\ users # <<>>

\* the user record carries no password credential
NoCredential(u) == "passwordHash" \notin DOMAIN u

\* C13: no session in the session table, no session returned by register,
\* login or refreshSession, and no user returned by validateSession or
\* getCurrentUser carries the passwordHash field
C13_NoPasswordHashInResults ==
    /\ \A t \in DOMAIN sessions : NoCredential(sessions[t].user)
    /\ \A c \in Slots :
           (calls[c].pc = "done" /\ calls[c].res.ok)
           => /\ calls[c].op \in {"register", "login", "refreshSession"}
                 => NoCredential(calls[c].res.value.user)
              /\ (calls[c].op \in {"validateSession", "getCurrentUser"}
                    /\ calls[c].res.value # Null)
                 => NoCredential(calls[c].res.value)

\* getCurrentUser returned the user of a session made by login, whose stored
\* record holds the credential
C13_Witness ==
    \E c \in Slots :
        /\ Done(c, "getCurrentUser")
        /\ calls[c].res.ok
        /\ calls[c].res.value # Null
        /\ \E i \in 1..Len(users) :
               users[i].id = calls[c].res.value.id /\ users[i].passwordHash = "secret"
        /\ nextToken = 3

\* the title is empty or consists of whitespace only
Blank(title) == \A i \in 1..Len(title) : title[i] = " "

\* the step invokes createTodo or updateTodo in slot c with a blank title
InvokesWithBlankTitle(c) ==
    /\ Free(c)
    /\ calls'[c] # calls[c]
    /\ calls'[c].op \in {"createTodo", "updateTodo"}
    /\ "title" \in DOMAIN calls'[c].arg.data
    /\ Blank(calls'[c].arg.data.title)

Negated(todo) == [todo EXCEPT !.completed = ~todo.completed]

\* C15: a toggleTodo of a stored todo that passes the ownership check stores
\* and returns the todo with completed negated and nothing else changed; a
\* toggleTodo of the same id made right after it starts from that result, and
\* toggling the stored todo again gives back the todo as it was at first
C15_ToggleInvolution ==
    [][\A c \in Slots :
          /\ (/\ calls[c].pc = "toggleTodo_1"
              /\ calls'[c] # calls[c]
              /\ calls[c].loc.todo # Null
              /\ calls[c].arg.userId \in {"", calls[c].loc.todo.userId})
             => LET old == TodoRepoGetById(calls[c].arg.id)
                IN  /\ calls'[c].pc = "done"
                    /\ calls'[c].res = Ok(Negated(old))
                    /\ TodoRepoGetById(calls[c].arg.id)' = Negated(old)
                    /\ Len(todos') = Len(todos)
                    /\ TodoRepoUpdated(toggleTodoData(calls[c].arg.id,
                                                      TodoRepoGetById(calls[c].arg.id)))' = old
          /\ (/\ Done(c, "toggleTodo")
              /\ calls[c].res.ok
              /\ calls'[c] # calls[c]
              /\ calls'[c].op = "toggleTodo"
              /\ calls'[c].arg.id = calls[c].arg.id)
             => /\ calls'[c].pc = "toggleTodo_1"
                /\ calls'[c].loc.todo = calls[c].res.value
                /\ UNCHANGED todoVars]_vars

\* a toggleTodo has brought a todo back to not completed
C15_Witness ==
    \E c \in Slots :
        /\ Done(c, "toggleTodo")
        /\ calls[c].res.ok
        /\ ~calls[c].res.value.completed
        /\ TodoRepoGetById(calls[c].arg.id) = calls[c].res.value

C17_RegisterValidation ==
    [][\A c \in Slots :
          (Invokes(c, "register") /\ ~ValidRegisterData(calls'[c].arg))
          => /\ calls'[c].pc = "done"
             /\ calls'[c].res =
                    IF ~Includes(calls'[c].arg.email, "@") THEN Err(ErrInvalidEmail)
                    ELSE IF Len(calls'[c].arg.username) < 3 THEN Err(ErrUsernameShort)
                    ELSE Err(ErrPasswordShort)
             /\ UNCHANGED <<todoVars, authVars>>]_vars

\* a register with a short password only was rejected
C17_Witness ==
    \E c \in Slots :
        /\ Done(c, "register")
        /\ calls[c].res = Err(ErrPasswordShort)
        /\ Includes(calls[c].arg.email, "@")
        /\ Len(calls[c].arg.username) >= 3
        /\ Len(calls[c].arg.password) < 6
        /\ ~EmailRegistered(calls[c].arg.email)
        /\ users # <<>>

\* slot c holds the session of a successful register and the step invokes
\* login there with the email and password that were registered
LoginRightAfterRegister(c) ==
    /\ Done(c, "register")
    /\ calls[c].res.ok
    /\ calls'[c] # calls[c]
    /\ calls'[c].op = "login"
    /\ calls'[c].arg.email = calls[c].arg.email
    /\ calls'[c].arg.password = calls[c].arg.password

\* C18: a login made right after a successful register, with the same email
\* and password, finds the registered user, and a login that found a user with
\* the given password returns a session of that user (same id and username)
\* under a token that validateSession and isAuthenticated accept
C18_LoginAfterRegister ==
    [][\A c \in Slots :
          /\ LoginRightAfterRegister(c)
             => /\ calls'[c].pc = "login_1"
                /\ calls'[c].loc.userWithPassword # Null
                /\ calls'[c].loc.userWithPassword.id = calls[c].res.value.user.id
                /\ calls'[c].loc.userWithPassword.username = calls[c].res.value.user.username
                /\ calls'[c].loc.userWithPassword.passwordHash = calls'[c].arg.password
          /\ (/\ calls[c].pc = "login_1"
              /\ calls'[c] # calls[c]
              /\ calls[c].loc.userWithPassword # Null
              /\ calls[c].loc.userWithPassword.passwordHash = calls[c].arg.password)
             => /\ calls'[c].pc = "done"
                /\ calls'[c].res.ok
                /\ calls'[c].res.value.user.id = calls[c].loc.userWithPassword.id
                /\ calls'[c].res.value.user.username = calls[c].loc.userWithPassword.username
                /\ calls'[c].res.value.token = nextToken' - 1
                /\ (sessions[nextToken - 1] = calls[c].res.value)'
                /\ (validateSessionValue(nextToken - 1) = calls[c].res.value.user)'
                /\ isAuthenticatedValue(nextToken - 1)']_vars

\* the user registered with an upper-case email has logged in with it
C18_Witness ==
    \E c \in Slots :
        /\ Done(c, "login")
        /\ calls[c].res.ok
        /\ calls[c].arg.email = EmailAUpper
        /\ calls[c].res.value.user.username = NameXyz
        /\ calls[c].res.value.user.id = users[1].id
        /\ Accepted(calls[c].res.value.token)
        /\ Len(users) = 1
        /\ nextToken = 3

\* the todo store, the user store and the session table are left as they were
StoresUnchanged == UNCHANGED <<todos, users, sessions>>

\* the step ends the call in slot c with an error
Fails(c) == Completes(c) /\ ~calls'[c].res.ok

\* the step starts a changePassword or refreshSession whose token validateSession
\* rejected: the call goes on to fail with Unauthorized or InvalidSession
StartsRejected(c) ==
    /\ Free(c)
    /\ calls'[c] # calls[c]
    /\ calls'[c].pc \in {"changePassword_1", "refreshSession_1"}
    /\ calls'[c].loc.user = Null

\* C19 as stated: no step of a call that fails changes the todo store, the
\* user store or the session table
C19_FailingCallsChangeNothing ==
    [][\A c \in Slots : (Fails(c) \/ StartsRejected(c)) => StoresUnchanged]_vars

\* C19 amended: the step that ends a call with an error changes no store, and
\* a step that leaves a call pending changes a store in two cases only: register
\* creates the user, after which it cannot fail any more, and changePassword
\* and refreshSession remove the expired session of the token they were given
\* when they validate it, before they fail
C19_FailingCallsOnlyDropExpired ==
    [][\A c \in Slots :
          /\ Fails(c) => StoresUnchanged
          /\ (calls[c].pc = "register_3" /\ calls'[c] # calls[c])
             => (calls'[c].pc = "done" /\ calls'[c].res.ok)
          /\ (calls'[c] # calls[c] /\ calls'[c].pc # "done")
             => /\ todos' = todos
                /\ users' = users \/ calls'[c].pc = "register_3"
                /\ \/ sessions' = sessions
                   \/ /\ StartsRejected(c)
                      /\ Expired(calls'[c].arg.token)
                      /\ sessions' = MapDelete(sessions, calls'[c].arg.token)]_vars

\* a refreshSession of an expired token has failed and the entry is gone
C19_Witness ==
    \E c \in Slots :
        /\ Done(c, "refreshSession")
        /\ calls[c].res = Err(ErrInvalidSession)
        /\ calls[c].arg.token \in 1..(nextToken - 1)
        /\ ~MapHas(sessions, calls[c].arg.token)
        /\ now > SessionHours
        /\ nextToken = 2

\* the request of the settled call ended in a failure: no response, or a
\* response that is not ok
TransportFailed(c) ==
    calls[c].loc.outcome.kind = "networkError" \/ ~ResponseOk(calls[c].loc.outcome)

\* the settled call is a getById or getByEmail that the server answered with 404
NotFoundLookup(c) ==
    /\ calls[c].op \in {"ApiTodoRepository.getById", "ApiUserRepository.getById",
                        "ApiUserRepository.getByEmail"}
    /\ calls[c].loc.outcome.kind = "response"
    /\ calls[c].loc.outcome.status = 404

\* C20: when the request of a remote repository method fails, the method ends
\* with null if it is a getById or getByEmail answered with not found, and with
\* an error in every other case
C20_OnlyNotFoundBecomesNull ==
    [][\A c \in Slots :
          (calls[c].pc = "settled" /\ Completes(c) /\ TransportFailed(c))
          => IF NotFoundLookup(c)
             THEN calls'[c].res = Ok(Null)
             ELSE ~calls'[c].res.ok]_vars

\* what does hold: a failed request of getAll, getAllByUserId, create, update
\* or delete reaches the caller as the error the http client threw
C20_WritesAndListsPropagate ==
    [][\A c \in Slots :
          (/\ calls[c].pc = "settled"
           /\ Completes(c)
           /\ TransportFailed(c)
           /\ calls[c].op \notin {"ApiTodoRepository.getById", "ApiUserRepository.getById",
                                  "ApiUserRepository.getByEmail",
                                  "ApiUserRepository.emailExists",
                                  "ApiUserRepository.usernameExists"})
          => calls'[c].res = calls[c].loc.response /\ ~calls'[c].res.ok]_vars

\* the step ends a successful register, login or refreshSession in some slot
\* with the session of token t
Issues(t) ==
    \E c \in Slots :
        /\ Completes(c)
        /\ calls'[c].op \in {"register", "login", "refreshSession"}
        /\ calls'[c].res.ok
        /\ calls'[c].res.value.token = t
        /\ calls'[c].res.value.expiresAt = now + SessionHours

\* C24: a session enters the table only when register, login or
\* refreshSession issues it, with expiresAt 24 hours after that moment, and no
\* step changes the expiresAt (or anything else) of a session that stays in
\* the table
C24_FixedExpiry ==
    [][\A t \in DOMAIN sessions' :
          IF t \in DOMAIN sessions
          THEN sessions'[t] = sessions[t]
          ELSE sessions'[t].expiresAt = now + SessionHours /\ Issues(t)]_vars

\* validateSession has accepted a session in the last hour of its life, whose
\* expiresAt is still the one set at issuance
C24_Witness ==
    \E c \in Slots :
        /\ Done(c, "validateSession")
        /\ calls[c].res.value # Null
        /\ MapHas(sessions, calls[c].arg.token)
        /\ sessions[calls[c].arg.token].expiresAt = now
        /\ now > 0

\* C25: isAuthenticated(token) changes nothing, whatever the token: the session
\* table, an expired entry of the token included, is as it was
C25_IsAuthenticatedPure ==
    [][\A c \in Slots :
          Invokes(c, "isAuthenticated")
          => /\ calls'[c].pc = "done"
             /\ UNCHANGED <<todoVars, authVars>>
             /\ MapHas(sessions, calls'[c].arg.token) => MapHas(sessions', calls'[c].arg.token)]_vars

\* isAuthenticated has answered false for an expired token of the only session
\* ever issued, and the entry is still in the table
C25_Witness ==
    \E c \in Slots :
        /\ Done(c, "isAuthenticated")
        /\ calls[c].res = Ok(FALSE)
        /\ calls[c].arg.token = 1
        /\ nextToken = 2
        /\ MapHas(sessions, 1)
        /\ sessions[1].expiresAt < now

\* the number of todos of the listing for owner filter u
ListedCount(u) == Len(getAllTodosValue(u))

\* C26: after every step and for every owner filter the active count plus the
\* completed count is the length of the listing, a count call returns that
\* count, and a count call leaves the store as it was
C26_CountsDerived ==
    [][/\ \A u \in UserIdInputs :
             (getActiveTodosCountValue(u) + getCompletedTodosCountValue(u) = ListedCount(u))'
       /\ \A c \in Slots :
             (Free(c) /\ calls'[c] # calls[c]
                /\ calls'[c].op \in {"getActiveTodosCount", "getCompletedTodosCount"})
             => /\ UNCHANGED <<todoVars, authVars>>
                /\ calls'[c].pc = "done"
                /\ calls'[c].res.ok
                /\ calls'[c].res.value <= ListedCount(calls'[c].arg.userId)
                /\ calls'[c].res.value =
                       Cardinality({i \in 1..Len(todos) :
                           /\ calls'[c].arg.userId \in {"", todos[i].userId}
                           /\ todos[i].completed = (calls'[c].op = "getCompletedTodosCount")})]_vars

\* a count of one was returned for an owner with one active and one completed
\* todo
C26_Witness ==
    \E c \in Slots :
        /\ Done(c, "getCompletedTodosCount")
        /\ calls[c].res = Ok(1)
        /\ calls[c].arg.userId # ""
        /\ getActiveTodosCountValue(calls[c].arg.userId) = 1
        /\ ListedCount(calls[c].arg.userId) = 2

\* C27: a toggleTodo of an id that no stored todo has fails with the not-found
\* error, a toggleTodo of a stored todo with an owner id other than its owner's
\* fails with Unauthorized, and in both cases no todo is changed
C27_ToggleRejected ==
    [][\A c \in Slots :
          (calls[c].pc = "toggleTodo_1" /\ calls'[c] # calls[c])
          => LET todo == TodoRepoGetById(calls[c].arg.id)
             IN  /\ todo = Null
                    => /\ calls'[c].pc = "done"
                       /\ calls'[c].res = Err(ErrTodoNotFound)
                       /\ UNCHANGED todoVars
                 /\ (todo # Null /\ calls[c].arg.userId # "" /\ todo.userId # calls[c].arg.userId)
                    => /\ calls'[c].pc = "done"
                       /\ calls'[c].res = Err(ErrUnauthorizedToggle)
                       /\ UNCHANGED todoVars]_vars

\* a toggleTodo by another user was rejected and the todo is still not completed
C27_Witness ==
    \E c \in Slots :
        /\ Done(c, "toggleTodo")
        /\ calls[c].res = Err(ErrUnauthorizedToggle)
        /\ TodoRepoGetById(calls[c].arg.id) # Null
        /\ TodoRepoGetById(calls[c].arg.id).userId # calls[c].arg.userId
        /\ ~TodoRepoGetById(calls[c].arg.id).completed

\* a toggleTodo of an id that no todo has was rejected
C27_WitnessNotFound ==
    \E c \in Slots :
        /\ Done(c, "toggleTodo")
        /\ calls[c].res = Err(ErrTodoNotFound)
        /\ todos # <<>>

\* an observer whose unsubscribe handle has been called and that has not
\* subscribed again
Unsubscribed(o) == o \in handles /\ o \notin observers

\* C28: once its unsubscribe handle has been called an observer is called with
\* no later notification (until it subscribes again), and a notification calls
\* every observer that is subscribed at that moment exactly once, with the
\* notified data.
C28_UnsubscribeStopsNotifications ==
    [][/\ \A o \in Observers :
             Unsubscribed(o) => received'[o] = received[o]
       /\ received' # received =>
             \E data \in DataInputs : \A o \in observers :
                 received'[o] = Called(received[o], data)]_vars

C28_Witness ==
    /\ Unsubscribed("o1")
    /\ received["o1"].count = 1
    /\ "o2" \in observers
    /\ received["o2"].count = 2

\* the step on which a call of op in slot c completes
CompletesOp(c, op) == Completes(c) /\ calls'[c].op = op

\* on this step every subscribed observer is called once, with data
NotifiesAll(data) ==
    /\ \A o \in observers : received'[o] = Called(received[o], data)
    /\ \A o \in Observers \ observers : received'[o] = received[o]

\* C30: when a login succeeds isAuthenticated() is true, getCurrentUser() is the
\* user of the returned session and every subscriber is notified with that
\* user; when a logout completes isAuthenticated() is false, getCurrentUser()
\* is null and every subscriber is notified with null; and in every state
\* isAuthenticated() is true exactly when getCurrentUser() is not null.
C30_LoginLogoutState ==
    [][/\ \A c \in Slots :
             (CompletesOp(c, "AuthUseCase.login") /\ calls'[c].res.ok) =>
                 /\ ucIsAuthenticatedValue'
                 /\ ucGetCurrentUserValue' = calls'[c].res.value.user
                 /\ calls'[c].res.value.user.username = calls'[c].arg.username
                 /\ NotifiesAll(calls'[c].res.value.user)
       /\ \A c \in Slots :
             CompletesOp(c, "AuthUseCase.logout") =>
                 /\ ~ucIsAuthenticatedValue'
                 /\ ucGetCurrentUserValue' = Null
                 /\ NotifiesAll(Null)
       /\ ucIsAuthenticatedValue' <=> (ucGetCurrentUserValue' # Null)]_vars

C30_Witness ==
    /\ observers = {"o1", "o2"}
    /\ received["o1"] = [count |-> 2, last |-> Null]
    /\ received["o2"] = [count |-> 1, last |-> Null]
    /\ \E c \in Slots : calls[c].pc = "done" /\ calls[c].op = "AuthUseCase.logout"
    /\ ~ucIsAuthenticatedValue

C30_WitnessLogin ==
    /\ observers = {"o1"}
    /\ received["o1"] = [count |-> 1, last |-> DemoUser]
    /\ \E c \in Slots :
          calls[c].pc = "done" /\ calls[c].op = "AuthUseCase.login" /\ calls[c].res.ok
    /\ ucIsAuthenticatedValue

\* the calls of the observable TodoUseCase that change the list
UcListOps ==
    {"TodoUseCase.loadTodos", "TodoUseCase.createTodo", "TodoUseCase.toggleTodo",
     "TodoUseCase.deleteTodo"}

\* C29: on the step a loadTodos, createTodo, toggleTodo or deleteTodo of the
\* observable TodoUseCase resolves, every subscriber is called exactly once,
\* with the local list as it is after the call; on the step one of them fails
\* nobody is called and the local list is unchanged; and a call that is still
\* waiting for the repository has neither notified nor changed the list.
C29_NotifyOncePerSuccess ==
    [][\A c \in SeqSlots :
          /\ (Completes(c) /\ calls'[c].op \in UcListOps /\ calls'[c].res.ok) =>
                 NotifiesAll(ucTodos')
          /\ (Completes(c) /\ calls'[c].op \in UcListOps /\ ~calls'[c].res.ok) =>
                 UNCHANGED <<ucTodos, received>>
          /\ (~Completes(c) /\ calls'[c] # calls[c]) =>
                 UNCHANGED <<ucTodos, received>>]_vars

\* a toggle has resolved: both subscribers were called with the list holding
\* the toggled todo
C29_Witness ==
    /\ observers = {"o1", "o2"}
    /\ Done("c1", "TodoUseCase.toggleTodo")
    /\ calls["c1"].res.ok
    /\ calls["c1"].res.value.completed
    /\ received["o1"] = [count |-> 2, last |-> ucTodos]
    /\ received["o2"] = [count |-> 1, last |-> ucTodos]

\* a toggle has failed in the repository: the local list still holds the todo
C29_WitnessRepositoryError ==
    /\ Done("c1", "TodoUseCase.toggleTodo")
    /\ ~calls["c1"].res.ok
    /\ UcIndex(calls["c1"].arg.id) # 0
    /\ "o1" \in observers

\* a step on which the caller writes into an object it was handed (the
\* repository itself never writes into an object once it is built)
CallerMutation == heap' # heap /\ Len(heap') = Len(heap)

\* C21: a caller that mutates a value returned by getAll, getAllByUserId,
\* getById or create cannot thereby change what the repository holds.
C21_ReadsReturnCopies == [][CallerMutation => StoreContents' = StoreContents]_vars

\* the part that holds: the array handed out by getAll / getAllByUserId is not
\* the backing array, so popping from it leaves the repository alone
C21_ArraysAreCopies == [][held'.refs # held.refs /\ UNCHANGED heap => UNCHANGED memTodos]_vars

\* on this step instance r runs create
Creates(r) == lsNextId[r] # NotConstructed /\ lsNextId'[r] = lsNextId[r] + 1

\* the id of the todo the step appended differs from every stored id
AppendedIdIsNew == \A i \in 1..Len(storage) : storage[i].id # storage'[Len(storage')].id

\* C22: for every create on the localStorage repository, the id given to the
\* new todo differs from every id, numeric or not, that the stored collection
\* holds at the time of the call.
C22_CreatedIdIsNew == [][\A r \in Instances : Creates(r) => AppendedIdIsNew]_vars

\* the part that holds: while one instance is the only one built over the
\* storage, whatever ids it found there, its new ids are new
C22_NewForTheOnlyInstance ==
    [][\A r \in Instances :
          (Creates(r) /\ \A q \in Instances \ {r} : lsNextId[q] = NotConstructed)
              => AppendedIdIsNew]_vars

\* a todo of the Todo class / of the other repository with the values of todo
AsClassTodo(todo) ==
    [id |-> todo.id, title |-> todo.title, completed |-> todo.completed,
     createdAt |-> todo.createdAt]

AsCoreTodo(todo) ==
    [id |-> todo.id, title |-> todo.title, completed |-> todo.completed,
     userId |-> "u1", createdAt |-> todo.createdAt]

\* on this step some instance runs update on a stored todo
Updates == storage' # storage /\ Len(storage') = Len(storage) /\ UNCHANGED lsNextId

\* C23: saving a todo collection in the storage format and loading it back
\* gives todos with the same value in every field, the dates included: what
\* create and update save is what loads back, every loaded collection survives
\* another save and load, and the same holds for toJSON / fromJSON of the Todo
\* class and for the repository that stores createdAt only.
C23_SaveLoadRoundTrip ==
    [][/\ \A r \in Instances :
             Creates(r) =>
                 \E input \in LsCreateInputs :
                     LoadOf(storage') = Append(loadFromStorage, LsNewTodo(r, input))
       /\ Updates =>
             \E i \in 1..Len(storage), input \in LsUpdateInputs :
                 LoadOf(storage') =
                     [loadFromStorage EXCEPT ![i] = LsUpdated(@, input)]
       /\ LoadOf(SaveToStorage(LoadOf(storage'))) = LoadOf(storage')
       /\ \A i \in 1..Len(storage') :
             \A todo \in {LsLoaded(storage'[i])} :
                 /\ TodoFromJSON(TodoToJSON(AsClassTodo(todo))) = AsClassTodo(todo)
                 /\ CoreLoaded(CoreSaved(AsCoreTodo(todo))) = AsCoreTodo(todo)]_vars

\* a todo created at one time and updated at a later one is in storage
C23_Witness ==
    \E i \in 1..Len(storage) :
        /\ loadFromStorage[i].completed
        /\ loadFromStorage[i].createdAt.valid
        /\ loadFromStorage[i].updatedAt.valid
        /\ loadFromStorage[i].updatedAt.time > loadFromStorage[i].createdAt.time
        /\ storage[i].updatedAt # storage[i].createdAt

\* a createTodo or updateTodo of the observable TodoUseCase is invoked in slot
\* c with a title whose trimmed length is under 3
InvokesWithShortTitle(c) ==
    /\ Free(c)
    /\ calls'[c] # calls[c]
    /\ \/ /\ calls'[c].op = "TodoUseCase.createTodo"
          /\ Len(Trim(calls'[c].arg.title)) < 3
       \/ /\ calls'[c].op = "TodoUseCase.updateTodo"
          /\ "title" \in DOMAIN calls'[c].arg.input
          /\ Len(Trim(calls'[c].arg.input.title)) < 3

\* the title given to the call in slot c, after the step
GivenTitle(c) ==
    IF calls'[c].op = "TodoUseCase.createTodo" THEN calls'[c].arg.title
    ELSE calls'[c].arg.input.title

\* C31 (as stated): createTodo and updateTodo of the observable TodoUseCase
\* fail with "Todo title must be at least 3 characters" for every title
\* whose trimmed length is under 3, and change neither the repository nor
\* the local list.
C31_ShortTitleAlwaysLengthError ==
    [][\A c \in SeqSlots :
          InvokesWithShortTitle(c) =>
              /\ calls'[c].pc = "done"
              /\ calls'[c].res = Err(ErrUcTitleShort)
              /\ UNCHANGED <<mapTodos, mapNextId, ucTodos>>]_vars

\* C31 (amended): createTodo and updateTodo of the observable TodoUseCase
\* fail at once for every title whose trimmed length is under 3, with "Todo
\* title cannot be empty" when nothing is left after trimming and with "Todo
\* title must be at least 3 characters" otherwise, and change neither the
\* repository, the local list nor what the subscribers received.
C31_ShortTitleRejected ==
    [][\A c \in SeqSlots :
          InvokesWithShortTitle(c) =>
              /\ calls'[c].pc = "done"
              /\ calls'[c].res =
                     Err(IF Trim(GivenTitle(c)) = <<>> THEN ErrTitleEmpty
                         ELSE ErrUcTitleShort)
              /\ UNCHANGED <<mapTodos, mapNextId, ucTodos, received>>]_vars

\* an updateTodo with a one-character title was rejected although the todo
\* it names is stored and listed
C31_Witness ==
    /\ Done("c1", "TodoUseCase.updateTodo")
    /\ calls["c1"].arg.input = [title |-> <<"x">>]
    /\ calls["c1"].res = Err(ErrUcTitleShort)
    /\ MapIndex(calls["c1"].arg.id) # 0
    /\ UcIndex(calls["c1"].arg.id) # 0

\* a createTodo with a two-character title between blanks was rejected
C31_WitnessCreate ==
    /\ Done("c1", "TodoUseCase.createTodo")
    /\ calls["c1"].arg.title = <<" ", "a", "b", " ">>
    /\ calls["c1"].res = Err(ErrUcTitleShort)
    /\ "o1" \in observers

\* C32: on the step a Store.setState(partial) returns, every key of partial
\* holds the value partial gives it, every other key of the state keeps its
\* value, the state has no further keys, every subscribed listener has been
\* called exactly once, with the new state, and no other listener was called.
C32_SetStateMerges ==
    [][\A c \in SeqSlots :
          CompletesOp(c, "Store.setState") =>
              /\ DOMAIN storeState' = (DOMAIN storeState) \cup (DOMAIN calls'[c].arg)
              /\ \A k \in DOMAIN calls'[c].arg : storeState'[k] = calls'[c].arg[k]
              /\ \A k \in (DOMAIN storeState) \ (DOMAIN calls'[c].arg) :
                     storeState'[k] = storeState[k]
              /\ \A l \in listeners : heard'[l] = Called(heard[l], storeState')
              /\ \A l \in Listeners \ listeners : heard'[l] = heard[l]
              /\ listeners' = listeners]_vars

\* the state held count and name, setState({count: 10}) returned: count is
\* replaced, name is kept, the subscribed listener heard the new state and the
\* unsubscribed one did not
C32_Witness ==
    /\ Done("c1", "Store.setState")
    /\ calls["c1"].arg = [count |-> 10]
    /\ storeState = [count |-> 10, name |-> "test"]
    /\ listeners = {"l1"}
    /\ heard["l1"] = [count |-> 2, last |-> storeState]
    /\ heard["l2"].count = 1
    /\ heard["l2"].last = [count |-> 5, name |-> "test"]

\* C33: once the page that the reload of a successful useAuth().login or
\* register produced has finished the mount effect of its AuthProvider, the
\* user is logged in (isAuthenticated of the context is true).
C33_LoginFlowEndsLoggedIn ==
    (loadedBy \in {"login", "register"} /\ effect = EffectOver) => ctxIsAuthenticated

\* what the flow does up to the validation: the page a successful login or
\* register loaded finds the token of that session in localStorage when its
\* effect starts
C33_TokenSavedBeforeReload ==
    (loadedBy \in {"login", "register"} /\ effect = EffectPending) =>
        authToken # NullToken

\* what the flow ends in: the provider never gets a user, and once the effect
\* is over the saved token has been removed again
C33_NeverLoggedIn ==
    /\ ~ctxIsAuthenticated
    /\ effect = EffectOver => authToken = NullToken

\* the page loaded by a successful register has finished its effect
C33_FlowFinished ==
    /\ loadedBy = "register"
    /\ effect = EffectOver
    /\ ~isLoading

\* the id of the todo an updateTodo or toggleTodo call in slot c names, after
\* the step
TargetId(c) ==
    IF calls'[c].op = "updateTodo" THEN calls'[c].arg.data.id ELSE calls'[c].arg.id

\* the fields the call in slot c supplies a value for, after the step
Supplied(c) ==
    IF calls'[c].op = "updateTodo" THEN (DOMAIN calls'[c].arg.data) \ {"id"}
    ELSE {"completed"}

\* C34: on the step an updateTodo or toggleTodo resolves, the store has the
\* same todos in the same order; every todo other than the targeted one is
\* unchanged; the targeted one keeps its id, its userId and every field the
\* call did not supply (updatedAt aside), and a field updateTodo supplied has
\* the supplied value.
C34_UpdateChangesOnlySupplied ==
    [][\A c \in SeqSlots :
          (Completes(c) /\ calls'[c].op \in {"updateTodo", "toggleTodo"} /\ calls'[c].res.ok) =>
              \A i \in {TodoRepoUpdateIndex([id |-> TargetId(c)])} :
                  /\ i # 0
                  /\ Len(todos') = Len(todos)
                  /\ \A j \in (1..Len(todos)) \ {i} : todos'[j] = todos[j]
                  /\ (DOMAIN todos'[i]) \ {"updatedAt"} = (DOMAIN todos[i]) \ {"updatedAt"}
                  /\ \A f \in (DOMAIN todos[i]) \ (Supplied(c) \cup {"updatedAt"}) :
                         todos'[i][f] = todos[i][f]
                  /\ todos'[i].id = todos[i].id
                  /\ todos'[i].userId = todos[i].userId
                  /\ calls'[c].op = "updateTodo" =>
                         \A f \in Supplied(c) : todos'[i][f] = calls'[c].arg.data[f]
                  /\ calls'[c].res.value = todos'[i]]_vars

\* an updateTodo that supplied completed alone has resolved on the second of two
\* stored todos: both keep their titles, the first is not completed
C34_Witness ==
    /\ Done("c1", "updateTodo")
    /\ calls["c1"].res.ok
    /\ DOMAIN calls["c1"].arg.data = {"id", "completed"}
    /\ Len(todos) = 2
    /\ todos[2].id = calls["c1"].arg.data.id
    /\ todos[2].completed
    /\ todos[2].title # <<>>
    /\ ~todos[1].completed

\* a toggleTodo has resolved on the first of two stored todos
C34_WitnessToggle ==
    /\ Done("c1", "toggleTodo")
    /\ calls["c1"].res.ok
    /\ Len(todos) = 2
    /\ todos[1].id = calls["c1"].arg.id
    /\ todos[1].completed
    /\ ~todos[2].completed

\* the same for the adapters' InMemoryTodoRepository behind the observable
\* TodoUseCase: on the step its update runs, the Map keeps its keys and order,
\* every other todo is unchanged, and the targeted one changes in the
\* supplied fields and updatedAt alone
C34_MapUpdateChangesOnlySupplied ==
    [][\A c \in SeqSlots :
          (calls'[c] # calls[c] /\ calls'[c].pc = "ucUpdateTodo_1"
             /\ calls'[c].loc.result.ok) =>
              \A i \in {MapIndex(calls'[c].arg.id)} :
                  /\ i # 0
                  /\ Len(mapTodos') = Len(mapTodos)
                  /\ \A j \in (1..Len(mapTodos)) \ {i} : mapTodos'[j] = mapTodos[j]
                  /\ DOMAIN mapTodos'[i] = DOMAIN mapTodos[i]
                  /\ \A f \in (DOMAIN mapTodos[i])
                                \ ((DOMAIN calls'[c].arg.input) \cup {"updatedAt"}) :
                         mapTodos'[i][f] = mapTodos[i][f]
                  /\ \A f \in DOMAIN calls'[c].arg.input :
                         mapTodos'[i][f] = calls'[c].arg.input[f]
                  /\ calls'[c].loc.result.value = mapTodos'[i]]_vars

\* the calls that can take the entry of their token out of the session table
RemovingOps ==
    {"logout", "validateSession", "getCurrentUser", "changePassword", "refreshSession"}

\* C35: on the step validateSession or getCurrentUser runs for a tracked
\* token that is past its expiresAt, exactly the entry of that token leaves
\* the session table and null is returned; for any other token the table is
\* left as it is; and on no step does an entry leave the table unless a call
\* that was given its token runs on that step, so the passing of time and
\* calls on other tokens leave an expired entry in place.
C35_LazyExpiry ==
    [][/\ \A c \in Slots :
             (Completes(c) /\ calls'[c].op \in {"validateSession", "getCurrentUser"}) =>
                 \A t \in {calls'[c].arg.token} :
                     /\ Expired(t) => /\ sessions' = MapDelete(sessions, t)
                                      /\ calls'[c].res = Ok(Null)
                     /\ ~Expired(t) => sessions' = sessions
       /\ \A t \in DOMAIN sessions :
             t \notin DOMAIN sessions' =>
                 \E c \in Slots : /\ calls'[c] # calls[c]
                                  /\ calls'[c].op \in RemovingOps
                                  /\ calls'[c].arg.token = t]_vars

\* validateSession has returned null for an issued token whose entry is gone,
\* while the entry of another token, expired as well, is still in the table
C35_Witness ==
    \E c \in Slots :
        /\ Done(c, "validateSession")
        /\ calls[c].res = Ok(Null)
        /\ calls[c].arg.token \in 1..(nextToken - 1)
        /\ ~MapHas(sessions, calls[c].arg.token)
        /\ \E t \in DOMAIN sessions : Expired(t)

\* C36: toggleTodo looks the todo up on one step and writes on a later one:
\* the step that invokes it only reads (the call is left waiting with the
\* todo as stored at that moment, or with null), and the step on which it
\* resolves stores the negation of the completed value it read, whatever
\* the stored value has become in between; two overlapping calls that read
\* the same value therefore both store its negation.
C36_ToggleWritesNegationOfRead ==
    [][\A c \in Slots :
          /\ Invokes(c, "toggleTodo") =>
                 /\ calls'[c].pc = "toggleTodo_1"
                 /\ calls'[c].loc.todo = TodoRepoGetById(calls'[c].arg.id)
                 /\ UNCHANGED todos
          /\ (calls[c].pc = "toggleTodo_1" /\ Completes(c) /\ calls'[c].res.ok) =>
                 /\ calls'[c].res.value.completed = ~calls[c].loc.todo.completed
                 /\ (TodoRepoGetById(calls[c].arg.id))' = calls'[c].res.value]_vars

\* the second of two overlapping toggleTodo calls on one todo is about to
\* resolve: it read completed = false, the first call read false as well and
\* has stored true, so the second will store true again and the todo ends
\* flipped once
C36_Witness ==
    /\ calls["c1"].pc = "toggleTodo_1"
    /\ calls["c1"].loc.todo # Null
    /\ ~calls["c1"].loc.todo.completed
    /\ Done("c2", "toggleTodo")
    /\ calls["c2"].arg.id = calls["c1"].arg.id
    /\ calls["c2"].res.ok
    /\ calls["c2"].res.value.completed
    /\ TodoRepoGetById(calls["c1"].arg.id) = calls["c2"].res.value

\* C37: with one TodoUseCase as the only holder of its repository and two
\* overlapping callers of loadTodos, createTodo, updateTodo, toggleTodo and
\* deleteTodo, whenever no call is in flight the list getTodos() returns is
\* the list of the todos stored in the repository, in the same order and with
\* the same field values (whether or not loadTodos has run: the repository
\* starts empty).
C37_MirrorConsistency ==
    (\A c \in Slots : Free(c)) => getTodosValue = MapRepoGetAll

\* both callers are done, the second with a loadTodos that overlapped a
\* toggleTodo; the mirror and the repository hold a completed todo
C37_Witness ==
    /\ Done("c1", "TodoUseCase.toggleTodo")
    /\ calls["c1"].res.ok
    /\ Done("c2", "TodoUseCase.loadTodos")
    /\ Len(mapTodos) = 2
    /\ getTodosValue = MapRepoGetAll
    /\ mapTodos[2].completed

\* C38: no step changes the contents of an array that was handed to a
\* subscriber of the observable TodoUseCase, and a step that notifies the
\* subscribers of a changed list hands them an array other than the one they
\* were handed before.
C38_DeliveredListsAreSnapshots ==
    [][/\ \A r \in deliveredRefs : lists'[r] = lists[r]
       /\ (received' # received /\ ucTodos' # ucTodos /\ lastRef # 0) =>
              lastRef' # lastRef]_vars

\* what holds of loadTodos and deleteTodo: a step that makes this.todos refer
\* to another array allocates it on that step, leaves every older array as it
\* is and hands the new one to the subscribers
C38_NewArraysAreFresh ==
    [][todosRef' # todosRef =>
          /\ todosRef' = Len(lists) + 1
          /\ \A r \in 1..Len(lists) : lists'[r] = lists[r]
          /\ observers # {} => lastRef' = todosRef']_vars

\* a subscriber was handed the array of loadTodos, and a createTodo has since
\* pushed into that array and handed it over again
C38_DeliveredArrayChanged ==
    /\ observers # {}
    /\ todosRef = 2
    /\ lastRef = 2
    /\ Len(lists[2]) = 1
    /\ \A o \in observers : received[o].count = 2


\* what repository.isAuthenticated reported to the checkAuth of slot c, for a
\* step on which that checkAuth completes: the else branch ends the call at
\* the first continuation, the then branch at the second
ReportedSession(c) ==
    IF calls[c].pc = "checkAuth_1" THEN calls[c].loc.isAuth ELSE TRUE

\* what repository.getCurrentUser returned to the checkAuth of slot c, null
\* when it was not asked
UserRead(c) ==
    IF calls[c].pc = "checkAuth_2" THEN calls[c].loc.user ELSE Null

\* a login that fails leaves the current user as it was and calls no subscriber
FailedLoginChangesNothing ==
    \A c \in Slots :
        (CompletesOp(c, "AuthUseCase.login") /\ ~calls'[c].res.ok) =>
            /\ ucGetCurrentUserValue' = ucGetCurrentUserValue
            /\ received' = received

\* C39 as stated: when checkAuth completes, isAuthenticated() is true exactly
\* when the repository reported an existing, unexpired session at the check,
\* getCurrentUser() is then a user of the repository and otherwise null, and
\* every subscriber is called once with that value; a failed login leaves the
\* current user unchanged and calls no subscriber.
C39_CheckAuthFollowsReport ==
    [][/\ \A c \in Slots :
             CompletesOp(c, "AuthUseCase.checkAuth") =>
                 /\ ucIsAuthenticatedValue' <=> ReportedSession(c)
                 /\ IF ReportedSession(c)
                    THEN \E i \in 1..Len(MockUsers) : ucGetCurrentUserValue' = MockUsers[i]
                    ELSE ucGetCurrentUserValue' = Null
                 /\ NotifiesAll(ucGetCurrentUserValue')
       /\ FailedLoginChangesNothing]_vars

\* C39, amended: when checkAuth completes, isAuthenticated() is true exactly
\* when the repository reported an existing, unexpired session at the check
\* and still held a session when checkAuth read its user after the first
\* await; getCurrentUser() is the user read then, null when no session was
\* reported or none was left; every subscriber is called once with that
\* value; a failed login leaves the current user unchanged and calls no
\* subscriber.
C39_CheckAuthFollowsReportAndRead ==
    [][/\ \A c \in Slots :
             CompletesOp(c, "AuthUseCase.checkAuth") =>
                 /\ ucIsAuthenticatedValue' <=> (ReportedSession(c) /\ UserRead(c) # Null)
                 /\ ucGetCurrentUserValue' = UserRead(c)
                 /\ UserRead(c) # Null => \E i \in 1..Len(MockUsers) : UserRead(c) = MockUsers[i]
                 /\ NotifiesAll(ucGetCurrentUserValue')
       /\ FailedLoginChangesNothing]_vars

\* a checkAuth has found the session of an earlier login expired: the session
\* is still stored, the current user is null and the subscriber has been
\* called by the login and by the checkAuth
C39_Witness ==
    /\ currentSession # Null
    /\ currentSession.expiresAt <= now
    /\ \E c \in Slots : Done(c, "AuthUseCase.checkAuth")
    /\ \A c \in Slots : calls[c].pc \in {"idle", "done"}
    /\ ~ucIsAuthenticatedValue
    /\ observers = {"o1"}
    /\ received["o1"] = [count |-> 2, last |-> Null]

\* a checkAuth has found a live session and set its user
C39_WitnessSession ==
    /\ currentSession # Null
    /\ currentSession.expiresAt > now
    /\ \E c \in Slots : Done(c, "AuthUseCase.checkAuth")
    /\ ucGetCurrentUserValue = DemoUser
    /\ observers = {"o1", "o2"}
    /\ received["o1"] = [count |-> 2, last |-> DemoUser]

\* a login has failed at the repository while a user was logged in
C39_WitnessFailedLogin ==
    /\ \E c \in Slots :
          /\ Done(c, "AuthUseCase.login")
          /\ calls[c].res = Err(ErrMockInvalidCredentials)
    /\ ucGetCurrentUserValue = DemoUser
    /\ observers = {"o1"}
    /\ received["o1"] = [count |-> 1, last |-> DemoUser]

\* a logout has overlapped a checkAuth that was told of a session: the
\* checkAuth is about to set the null it read after the logout
C39_WitnessOverlap ==
    \E c \in Slots :
        /\ calls[c].pc = "checkAuth_2"
        /\ calls[c].loc.user = Null

====
